---- MODULE Spec2Model ----
(***************************************************************************)
(* The cake-ordering bots of guggenheimg/TATIDM: the per-participant        *)
(* dialogue (aiogram FSM), the order ledger kept in a spreadsheet, the      *)
(* status update with customer notification, and the paging of listings.    *)
(* Four variants of the bot exist in the repository (o3.py, user_bot.py,    *)
(* combined_bot.py, admin_bot.py); the variable `variant` says which one    *)
(* runs.                                                                    *)
(*                                                                          *)
(* Texts are sequences of one-character strings.  Cyrillic texts of the     *)
(* source are written in Latin transliteration (the module is ASCII):       *)
(* "Отмена" is Otmena, "да" is da, "нет" is net, and so on.                 *)
(***************************************************************************)
EXTENDS Integers, Sequences, FiniteSets, TLC

VARIABLES
    variant,   \* which bot file is running
    catalog,   \* the rows of the catalog sheet (edited outside the bot)
    ledger,    \* the data rows of the orders sheet, in sheet order
    fsm,       \* aiogram FSM storage: participant -> [state, data]
    tasks,     \* handlers suspended at a call of the store
    outbox,    \* the messages sent by the last step
    pg         \* an order listing shown page by page (its records, page size, page)

vars == <<variant, catalog, ledger, fsm, tasks, outbox, pg>>

-----------------------------------------------------------------------------
(* Bounds of the model *)

\* the ledger holds at most this many data rows
MaxRows == 2
\* at most this many handlers are suspended at a store call at once
MaxTasks == 2
\* a listing that is paged holds at most this many records
MaxRecs == 5
\* the page sizes tried go up to this
MaxPageSize == 3
\* an orders sheet that is listed by customer holds at most this many rows
MaxSheet == 4
\* the longest sheet whose listing is sorted
MaxSort == 3
\* the sheet the operator lists holds at most this many rows
MaxView == 11
\* the rows of the sheet the customer pages through
MaxPress == 3

-----------------------------------------------------------------------------
(* Python's str operations, on texts as sequences of characters *)

UPPER == <<"A","B","C","D","E","F","G","H","I","J","K","L","M","N","O","P","Q","R","S","T","U","V","W","X","Y","Z">>
LOWER == <<"a","b","c","d","e","f","g","h","i","j","k","l","m","n","o","p","q","r","s","t","u","v","w","x","y","z">>
DIGITS == <<"0","1","2","3","4","5","6","7","8","9">>

\* str.lower() on one character
LowerChar(c) ==
    IF \E i \in 1..Len(UPPER) : UPPER[i] = c
    THEN LOWER[CHOOSE i \in 1..Len(UPPER) : UPPER[i] = c]
    ELSE c

\* str.lower()
Lower(s) == [i \in 1..Len(s) |-> LowerChar(s[i])]

IsSpace(c) == c = " "

RECURSIVE LStrip(_)
LStrip(s) == IF s # <<>> /\ IsSpace(Head(s)) THEN LStrip(Tail(s)) ELSE s

RECURSIVE RStrip(_)
RStrip(s) ==
    IF s # <<>> /\ IsSpace(s[Len(s)]) THEN RStrip(SubSeq(s, 1, Len(s) - 1)) ELSE s

\* str.strip()
Strip(s) == RStrip(LStrip(s))

IsDigitChar(c) == \E i \in 1..Len(DIGITS) : DIGITS[i] = c

\* a test every non-empty text passes
IsDigit_any(s) == Len(s) > 0

\* str.isdigit(): non-empty and every character a digit
IsDigit(s) == s # <<>> /\ \A i \in 1..Len(s) : IsDigitChar(s[i])

DigitVal(c) == (CHOOSE i \in 1..Len(DIGITS) : DIGITS[i] = c) - 1

\* int(s) of a text of digits
RECURSIVE IntOf(_)
IntOf(s) ==
    IF s = <<>> THEN 0
    ELSE 10 * IntOf(SubSeq(s, 1, Len(s) - 1)) + DigitVal(s[Len(s)])

\* str(n) of a natural number
RECURSIVE StrNat(_)
StrNat(n) ==
    IF n < 10 THEN <<DIGITS[n + 1]>>
    ELSE StrNat(n \div 10) \o <<DIGITS[(n % 10) + 1]>>

\* the index of the first blank of s, 0 when it has none
FirstSpace(s) ==
    IF \E i \in 1..Len(s) : IsSpace(s[i])
    THEN CHOOSE i \in 1..Len(s) :
             IsSpace(s[i]) /\ \A j \in 1..(i - 1) : ~IsSpace(s[j])
    ELSE 0

\* s.split(): every run of blanks cuts
RECURSIVE SplitAll(_)
SplitAll(s) ==
    LET t == LStrip(s)
        k == FirstSpace(t)
    IN  IF t = <<>> THEN <<>>
        ELSE IF k = 0 THEN <<t>>
        ELSE <<SubSeq(t, 1, k - 1)>> \o SplitAll(SubSeq(t, k + 1, Len(t)))

\* a split without maxsplit
Split1_all(s) == SplitAll(s)

\* a split that keeps an empty second part
Split1_keep(s) ==
    LET t == LStrip(s)
        k == FirstSpace(t)
    IN  IF t = <<>> THEN <<>>
        ELSE IF k = 0 THEN <<t, <<>>>>
        ELSE <<SubSeq(t, 1, k - 1), LStrip(SubSeq(t, k + 1, Len(t)))>>

\* s.split(maxsplit=1): at most two parts, cut at the first run of blanks
Split1(s) ==
    LET t == LStrip(s)
        k == FirstSpace(t)
    IN  IF t = <<>> THEN <<>>
        ELSE IF k = 0 THEN <<t>>
        ELSE LET rest == LStrip(SubSeq(t, k + 1, Len(t)))
             IN  IF rest = <<>> THEN <<SubSeq(t, 1, k - 1)>>
                 ELSE <<SubSeq(t, 1, k - 1), rest>>

-----------------------------------------------------------------------------
(* Texts of the program *)

\* "Отмена"
CANCEL_TEXT == <<"O","t","m","e","n","a">>
\* "Сделать заказ"
MAKE_ORDER_TEXT == <<"S","d","e","l","a","t"," ","z","a","k","a","z">>
\* "Обновить статус заказа"
UPDATE_STATUS_TEXT == <<"O","b","n","o","v","i","t"," ","s","t","a","t","u","s"," ","z","a","k","a","z","a">>
CMD_START == <<"/","s","t","a","r","t">>
CMD_MENU == <<"/","m","e","n","u">>
CMD_UPDATE_STATUS == <<"/","u","p","d","a","t","e","_","s","t","a","t","u","s">>
\* "Просмотреть заказы"
VIEW_ORDERS_TEXT == <<"P","r","o","s","m","o","t","r","e","t"," ","z","a","k","a","z","y">>
CMD_VIEW_ORDERS == <<"/","v","i","e","w","_","o","r","d","e","r","s">>
\* "Статус заказов"
CHECK_STATUS_TEXT == <<"S","t","a","t","u","s"," ","z","a","k","a","z","o","v">>
CMD_STATUS == <<"/","s","t","a","t","u","s">>
\* "Доставлен", the status of the orders the operator's listing leaves out
DELIVERED_STATUS == <<"D","o","s","t","a","v","l","e","n">>
\* "ожидается подтверждение администратора"
INITIAL_STATUS == <<"o","z","h","i","d","a","e","t","s","y","a"," ","p","o","d","t","v","e","r","z","h","d","e","n","i","e"," ","a","d","m","i","n","i","s","t","r","a","t","o","r","a">>
\* "да", "нет"
YES_TEXT == <<"d","a">>
NO_TEXT == <<"n","e","t">>
\* the payloads of the inline buttons of o3.py, after "confirm_order:"
CB_YES == <<"y","e","s">>
CB_NO == <<"n","o">>
\* a payload confirm_order:<x> that none of the buttons carries
CB_OTHER == <<"m","a","y","b","e">>

-----------------------------------------------------------------------------
(* Participants, catalog, and the inputs the participants send *)

\* two customers and two operators
Customers == {1, 2}
ADMIN_IDS == <<9, 8>>
Participants == Customers \cup {ADMIN_IDS[i] : i \in 1..Len(ADMIN_IDS)}

is_admin(user_id) == \E i \in 1..Len(ADMIN_IDS) : ADMIN_IDS[i] = user_id

\* message.from_user.username or full_name
UserName(u) == <<"u">> \o StrNat(u)

Variants == {"o3", "user_bot", "combined_bot", "admin_bot"}

\* one catalog item at two prices: the catalog sheet is edited outside the bot
CakeAt(price) ==
    [name |-> <<"C","h","o","c">>, price |-> price,
     description |-> <<"x">>, photo |-> <<>>]
Catalogs == {<<CakeAt(500)>>, <<CakeAt(600)>>}

\* datetime.now() of the writer, to the second
Timestamps == {1}

T_choc == <<"c","h","o","c"," ">>
T_dark == <<"d","a","r","k">>
T_8 == <<"8">>
T_0 == <<"0">>
T_none == <<"n","o","n","e">>
T_Da == <<"D","a">>
T_1_ok == <<"1"," ","o","k">>
T_2_ok == <<"2"," ","o","k">>
T_abc_ok == <<"a","b","c"," ","o","k">>
T_1_blank == <<"1"," ">>
T_1 == <<"1">>
T_1_a_b == <<"1"," ","a"," "," ","b"," ">>

\* the menu buttons and commands of a variant, typed in whatever state
MenuTexts(v) ==
    IF v \in {"o3", "user_bot"}
    THEN {CMD_START, CANCEL_TEXT, MAKE_ORDER_TEXT, UPDATE_STATUS_TEXT}
    ELSE {CMD_START, CANCEL_TEXT, CMD_MENU, CMD_UPDATE_STATUS}

\* what a participant types in reply to the prompt of a state
ReplyTexts(st) ==
    CASE st = "ChoosingCake" -> {T_choc, T_dark}
      [] st = "ChoosingTaste" -> {T_dark}
      [] st = "ChoosingSize" -> {T_8, T_dark}
      [] st = "ChoosingDecor" -> {T_none}
      [] st = "Confirming" -> {T_Da, NO_TEXT, T_8}
      [] st = "UpdatingOrderStatus" -> {T_1_ok, T_2_ok, T_abc_ok, T_1_blank}
      [] OTHER -> {}

\* the texts of a participant who only follows the prompts
PlainInputs(v, u, st) ==
    CASE st = "Idle" ->
           IF is_admin(u) THEN {UPDATE_STATUS_TEXT, CMD_UPDATE_STATUS} \cap MenuTexts(v)
           ELSE {MAKE_ORDER_TEXT, CMD_MENU} \cap MenuTexts(v)
      [] st = "ChoosingCake" -> {T_choc}
      [] st = "ChoosingTaste" -> IF u = 2 THEN {T_none} ELSE {T_dark}
      [] st = "ChoosingSize" -> {T_8}
      [] st = "ChoosingDecor" -> {T_none}
      [] st = "Confirming" -> {T_Da}
      [] st = "UpdatingOrderStatus" -> {T_1_ok}

\* the message texts participant u may send while its session is in state st:
\* the menu texts of its role, in whatever state, and every reply
Inputs(v, u, st) ==
    IF is_admin(u)
    THEN (MenuTexts(v) \ {MAKE_ORDER_TEXT, CMD_MENU}) \cup ReplyTexts(st)
    ELSE (MenuTexts(v) \ {UPDATE_STATUS_TEXT, CMD_UPDATE_STATUS}) \cup ReplyTexts(st)

\* the texts of a customer who follows the prompts and, asked for the size,
\* also tries zero persons and a word
SizeInputs(v, st) ==
    IF st = "ChoosingSize" THEN {T_8, T_0, T_dark} ELSE PlainInputs(v, 1, st)

\* the buttons of a confirmation prompt stay in the chat after the dialogue it
\* belonged to: o3.py's customer may press them in whatever state
LatePayloads(v) == IF v = "o3" THEN {CB_YES, CB_NO} ELSE {}

\* the texts of a customer who follows the prompts or cancels
ButtonInputs(v, st) == PlainInputs(v, 1, st) \cup {CANCEL_TEXT}

\* the texts of an operator who, asked for id and status, sends them in every
\* shape
StatusInputs(v, u, st) ==
    IF st = "UpdatingOrderStatus"
    THEN {T_1_ok, T_2_ok, T_1, T_1_a_b, T_1_blank, T_abc_ok}
    ELSE PlainInputs(v, u, st)

\* the texts of a participant who also tries what belongs to the other role
RoleInputs(v, u, st) ==
    LET view == IF v \in {"o3", "user_bot"} THEN VIEW_ORDERS_TEXT ELSE CMD_VIEW_ORDERS
    IN  IF is_admin(u) THEN MenuTexts(v) \cup {view} \cup ReplyTexts(st)
        ELSE MenuTexts(v) \cup {view}

\* the callback payloads after the prefix confirm_order: (o3.py only): those of
\* the two inline buttons of the confirmation prompt, and one of no button
Payloads(v, st) ==
    IF v = "o3" /\ st = "Confirming" THEN {CB_YES, CB_NO, CB_OTHER} ELSE {}

-----------------------------------------------------------------------------
(* FSM storage (aiogram MemoryStorage): state and data of a participant *)

EmptyDict == [k \in {} |-> <<>>]

\* dict with d[k] = v
Put(d, k, v) == [x \in (DOMAIN d) \cup {k} |-> IF x = k THEN v ELSE d[x]]

\* d.get(k, default)
Get(d, k, default) == IF k \in DOMAIN d THEN d[k] ELSE default

HasKeys(d, ks) == ks \subseteq DOMAIN d

\* state.clear(): no state, no data
Cleared == [state |-> "Idle", data |-> EmptyDict]

\* a message sent by the bot
\* (sent: whether the send went through; only the notifications, sent inside
\* try/except, are modelled as able to fail)
Notify(to, kind, oid, status, sent) ==
    [to |-> to, kind |-> kind, oid |-> oid, status |-> status, sent |-> sent]
Msg(to, kind, oid, status) == Notify(to, kind, oid, status, TRUE)
Reply(to, kind) == Msg(to, kind, <<>>, <<>>)

NoTask == [h |-> "none"]
FreeSlots == {i \in 1..MaxTasks : tasks[i] = NoTask}
FirstFree == CHOOSE i \in FreeSlots : \A j \in FreeSlots : i <= j

-----------------------------------------------------------------------------
(* Routing: aiogram hands a message to the first registered handler whose    *)
(* filter matches, in the order the handlers are registered in the file      *)

OrderStateHandler(st) ==
    CASE st = "ChoosingCake" -> "user_choosing_cake"
      [] st = "ChoosingTaste" -> "user_choosing_taste"
      [] st = "ChoosingSize" -> "user_choosing_size"
      [] st = "ChoosingDecor" -> "user_choosing_decor"
      [] OTHER -> "none"

Route(v, st, text) ==
    CASE v \in {"o3", "user_bot"} ->
           IF text = CMD_START THEN "handle_start"
           ELSE IF text = CANCEL_TEXT THEN "handle_cancel"
           ELSE IF text = MAKE_ORDER_TEXT THEN "user_make_order"
           ELSE IF text = CHECK_STATUS_TEXT THEN "user_check_status"
           ELSE IF OrderStateHandler(st) # "none" THEN OrderStateHandler(st)
           ELSE IF v = "user_bot" /\ st = "Confirming" THEN "user_confirming_order"
           ELSE IF text = VIEW_ORDERS_TEXT THEN "admin_view_orders_menu"
           ELSE IF text = UPDATE_STATUS_TEXT THEN "admin_update_status_menu"
           ELSE IF st = "UpdatingOrderStatus" THEN "admin_process_update_status"
           ELSE "none"
      [] v = "combined_bot" ->
           IF text = CMD_START THEN "handle_start"
           ELSE IF text = CMD_MENU THEN "user_make_order"
           ELSE IF OrderStateHandler(st) # "none" THEN OrderStateHandler(st)
           ELSE IF st = "Confirming" THEN "user_confirming_order"
           ELSE IF text = CMD_STATUS THEN "user_check_status"
           ELSE IF text = CMD_VIEW_ORDERS THEN "admin_view_orders_menu"
           ELSE IF text = CMD_UPDATE_STATUS THEN "admin_update_status_menu"
           ELSE IF st = "UpdatingOrderStatus" THEN "admin_process_update_status"
           ELSE "none"
      [] v = "admin_bot" ->
           IF text = CMD_START THEN "handle_start"
           ELSE IF text = CMD_VIEW_ORDERS THEN "admin_view_orders_menu"
           ELSE IF text = CMD_UPDATE_STATUS THEN "admin_update_status_menu"
           ELSE IF st = "UpdatingOrderStatus" THEN "admin_process_update_status"
           ELSE "none"

\* participant u sends `text` and the handler named h receives it
Routed(u, text, h) == Route(variant, fsm[u].state, text) = h

\* the check of the cancel text at the head of a state handler
IsCancelInState(v, text) ==
    CASE v = "o3" -> Lower(Strip(text)) = Lower(CANCEL_TEXT)
      [] v = "user_bot" -> text = CANCEL_TEXT
      [] OTHER -> FALSE

\* handle_cancel: state.clear() and the menu of the participant's role
DoCancel(u) ==
    /\ fsm' = [fsm EXCEPT ![u] = Cleared]
    /\ outbox' = <<Reply(u, "menu")>>
    /\ UNCHANGED <<variant, catalog, ledger, tasks, pg>>

\* a handler that only answers: nothing but the outbox changes
OnlyReply(msgs) ==
    /\ outbox' = msgs
    /\ UNCHANGED <<variant, catalog, ledger, fsm, tasks, pg>>

\* a handler that answers and changes the participant's FSM entry
\* a storage that keeps one entry for all participants
ReplyAndSet_shared(u, msgs, entry) ==
    /\ outbox' = msgs
    /\ fsm' = [b \in DOMAIN fsm |-> entry]
    /\ UNCHANGED <<variant, catalog, ledger, tasks, pg>>

ReplyAndSet(u, msgs, entry) ==
    /\ outbox' = msgs
    /\ fsm' = [fsm EXCEPT ![u] = entry]
    /\ UNCHANGED <<variant, catalog, ledger, tasks, pg>>

\* the denial a customer-track handler sends to an operator
DeniedIfAdmin(u) == IF is_admin(u) THEN <<Reply(u, "denied")>> ELSE <<>>

-----------------------------------------------------------------------------
(* The customer track *)

\* a /start that leaves the state (set_state(None)) and keeps the data
handle_start_keep(u, text) ==
    /\ Routed(u, text, "handle_start")
    /\ IF variant = "admin_bot" /\ ~is_admin(u)
       THEN OnlyReply(<<Reply(u, "denied")>>)
       ELSE ReplyAndSet(u, <<Reply(u, "hello")>>, [fsm[u] EXCEPT !.state = "Idle"])

\* /start: state.clear() and the greeting of the participant's role; admin_bot.py
\* turns a participant who is no operator away first
handle_start(u, text) ==
    /\ Routed(u, text, "handle_start")
    /\ IF variant = "admin_bot" /\ ~is_admin(u)
       THEN OnlyReply(<<Reply(u, "denied")>>)
       ELSE ReplyAndSet(u, <<Reply(u, "hello")>>, Cleared)

\* the message "Отмена" (o3.py, user_bot.py)
handle_cancel(u, text) ==
    /\ Routed(u, text, "handle_cancel")
    /\ DoCancel(u)

\* get_catalog_of_cakes: the rows of the catalog, [] when the store raises
FetchCatalog(ok) == IF ok THEN catalog ELSE <<>>

\* a start of an order that asks for the cake whatever the catalog holds
make_order_anyway(u, text, ok) ==
    /\ Routed(u, text, "user_make_order")
    /\ IF variant = "o3" /\ is_admin(u)
       THEN OnlyReply(<<Reply(u, "denied")>>)
       ELSE LET cat == FetchCatalog(ok) IN
            IF cat = <<>>
            THEN ReplyAndSet(u, DeniedIfAdmin(u) \o <<Reply(u, "catalog_empty")>>,
                     [fsm[u] EXCEPT !.state = "ChoosingCake"])
            ELSE ReplyAndSet(u,
                     DeniedIfAdmin(u) \o <<Reply(u, "catalog"), Reply(u, "ask_cake")>>,
                     [fsm[u] EXCEPT !.state = "ChoosingCake"])

\* the start of an order; ok: the fetch of the catalog went through
make_order(u, text, ok) ==
    /\ Routed(u, text, "user_make_order")
    /\ IF variant = "o3" /\ is_admin(u)
       THEN OnlyReply(<<Reply(u, "denied")>>)
       ELSE LET cat == FetchCatalog(ok) IN
            IF cat = <<>>
            THEN OnlyReply(DeniedIfAdmin(u) \o <<Reply(u, "catalog_empty")>>)
            ELSE ReplyAndSet(u,
                     DeniedIfAdmin(u) \o <<Reply(u, "catalog"), Reply(u, "ask_cake")>>,
                     [fsm[u] EXCEPT !.state = "ChoosingCake"])

\* "Сделать заказ" (o3.py, user_bot.py), /menu (combined_bot.py)
user_make_order(u, text) == \E ok \in BOOLEAN : make_order(u, text, ok)

\* a lookup that compares the names as they are typed
FindCake_exact(cat, name) ==
    LET hits == {i \in 1..Len(cat) : cat[i].name = name}
    IN  IF hits = {} THEN <<>>
        ELSE <<cat[CHOOSE i \in hits : \A j \in hits : i <= j]>>

\* next((c for c in catalog if c['name'].lower() == name.lower()), None)
FindCake(cat, name) ==
    LET hits == {i \in 1..Len(cat) : Lower(cat[i].name) = Lower(name)}
    IN  IF hits = {} THEN <<>>
        ELSE <<cat[CHOOSE i \in hits : \A j \in hits : i <= j]>>

\* the handler of state ChoosingCake; ok: the fetch of the catalog went through
choosing_cake(u, text, ok) ==
    /\ Routed(u, text, "user_choosing_cake")
    /\ IF IsCancelInState(variant, text) THEN DoCancel(u)
       ELSE IF variant = "o3" /\ is_admin(u) THEN OnlyReply(<<Reply(u, "denied")>>)
       ELSE LET found == FindCake(FetchCatalog(ok), Strip(text)) IN
            IF found = <<>>
            THEN OnlyReply(DeniedIfAdmin(u) \o <<Reply(u, "no_such_cake")>>)
            ELSE ReplyAndSet(u, DeniedIfAdmin(u) \o <<Reply(u, "ask_taste")>>,
                     [state |-> "ChoosingTaste",
                      data |-> Put(fsm[u].data, "chosen_cake", found[1])])

user_choosing_cake(u, text) == \E ok \in BOOLEAN : choosing_cake(u, text, ok)

\* the denial of combined_bot.py's state handlers, which then go on
WarnIfAdmin(u) == IF variant = "combined_bot" THEN DeniedIfAdmin(u) ELSE <<>>

user_choosing_taste(u, text) ==
    /\ Routed(u, text, "user_choosing_taste")
    /\ IF IsCancelInState(variant, text) THEN DoCancel(u)
       ELSE ReplyAndSet(u, WarnIfAdmin(u) \o <<Reply(u, "ask_size")>>,
                [state |-> "ChoosingSize",
                 data |-> Put(fsm[u].data, "taste", Strip(text))])

user_choosing_size(u, text) ==
    /\ Routed(u, text, "user_choosing_size")
    /\ IF IsCancelInState(variant, text) THEN DoCancel(u)
       ELSE IF ~IsDigit(Strip(text))
       THEN OnlyReply(WarnIfAdmin(u) \o <<Reply(u, "need_number")>>)
       ELSE ReplyAndSet(u, WarnIfAdmin(u) \o <<Reply(u, "ask_decor")>>,
                [state |-> "ChoosingDecor",
                 data |-> Put(fsm[u].data, "size", Strip(text))])

\* o3.py reads the draft with data.get(key, default); the other variants
\* index it (data['taste']), which raises when the key is missing
DraftReadable(v, d) ==
    v = "o3" \/ HasKeys(d, {"chosen_cake", "taste", "size", "decor"})

user_choosing_decor(u, text) ==
    /\ Routed(u, text, "user_choosing_decor")
    /\ IF IsCancelInState(variant, text) THEN DoCancel(u)
       ELSE LET d == Put(fsm[u].data, "decor", Strip(text)) IN
            IF DraftReadable(variant, d)
            THEN ReplyAndSet(u, WarnIfAdmin(u) \o <<Reply(u, "ask_confirm")>>,
                     [state |-> "Confirming", data |-> d])
            ELSE ReplyAndSet(u, WarnIfAdmin(u), [fsm[u] EXCEPT !.data = d])

-----------------------------------------------------------------------------
(* The order ledger *)

\* cake.get('name', '').strip() and str(cake.get('price', '')).strip();
\* o3.py passes {} for a draft without chosen_cake
CakeName(cake) == IF cake = EmptyDict THEN <<>> ELSE Strip(cake.name)
\* the price the catalog shows now
CakePrice_now(cake) == IF cake = EmptyDict THEN <<>> ELSE Strip(StrNat(catalog[1].price))

CakePrice(cake) == IF cake = EmptyDict THEN <<>> ELSE Strip(StrNat(cake.price))

\* the row create_new_order appends
NewRow(order_id, user_id, user_name, cake, taste, size, decor, date) ==
    [OrderID |-> order_id,
     user_id |-> Strip(StrNat(user_id)),
     user_name |-> Strip(user_name),
     cake_name |-> CakeName(cake),
     price |-> CakePrice(cake),
     taste |-> Strip(taste),
     size |-> Strip(size),
     decor |-> Strip(decor),
     status |-> INITIAL_STATUS,
     date |-> date]

\* a numbering that repeats the last id
NextOrderId_same(rows) == IF Len(rows) + 1 < 2 THEN 1 ELSE rows[Len(rows)].OrderID

\* order_id = 1 if len(all_values) < 2 else int(all_values[-1][0]) + 1
\* (all_values holds the header row and the data rows)
NextOrderId(rows) == IF Len(rows) + 1 < 2 THEN 1 ELSE rows[Len(rows)].OrderID + 1

\* a lookup that takes the last row of that id
FindRow_last(rows, order_id) ==
    LET hits == {i \in 1..Len(rows) : StrNat(rows[i].OrderID) = order_id}
    IN  IF hits = {} THEN 0 ELSE CHOOSE i \in hits : \A j \in hits : i >= j

\* a lookup that falls back to the first row
FindRow_first(rows, order_id) ==
    LET hits == {i \in 1..Len(rows) : StrNat(rows[i].OrderID) = order_id}
    IN  IF hits = {} THEN (IF rows = <<>> THEN 0 ELSE 1)
        ELSE CHOOSE i \in hits : \A j \in hits : i <= j

\* the first row whose OrderID, as a string, equals order_id; 0 when none does
\* (update_order_status: for idx, order in enumerate(all_orders, start=2))
FindRow(rows, order_id) ==
    LET hits == {i \in 1..Len(rows) : StrNat(rows[i].OrderID) = order_id}
    IN  IF hits = {} THEN 0 ELSE CHOOSE i \in hits : \A j \in hits : i <= j

\* an update that writes the status into every row
UpdateCellAt_column(rows, idx, new_status) ==
    [r \in 1..Len(rows) |-> [rows[r] EXCEPT !.status = new_status]]

\* orders_sheet.update_cell(idx, status_col, new_status), idx counted in data rows
UpdateCellAt(rows, idx, new_status) ==
    IF idx \in 1..Len(rows) THEN [rows EXCEPT ![idx].status = new_status] ELSE rows

\* get_all_orders_by_user: the rows whose user_id cell, as a stripped string,
\* equals str(user_id)
RECURSIVE OrdersOfUser(_, _)
OrdersOfUser(rows, uid) ==
    IF rows = <<>> THEN <<>>
    ELSE (IF Strip(Head(rows).user_id) = uid THEN <<Head(rows)>> ELSE <<>>)
         \o OrdersOfUser(Tail(rows), uid)

\* a listing that compares the ids as numbers
get_all_orders_by_user_numeric(ok, rows, user_id) ==
    IF ok
    THEN SelectSeq(rows, LAMBDA o : /\ IsDigit(Strip(o.user_id))
                                    /\ IntOf(Strip(o.user_id)) = user_id)
    ELSE <<>>

\* [] when the read of the sheet raises
get_all_orders_by_user(ok, rows, user_id) ==
    IF ok THEN OrdersOfUser(rows, Strip(StrNat(user_id))) ELSE <<>>

PendingAppends == Cardinality({i \in 1..MaxTasks : tasks[i].h = "create_new_order"})

\* the handler of the confirmation calls create_new_order, which reads the sheet
\* (get_all_values) and is suspended before append_row
BeginCreate(u, d) ==
    /\ FreeSlots # {}
    /\ Len(ledger) + PendingAppends < MaxRows
    /\ \E ok \in BOOLEAN, now \in Timestamps :
         IF ok
         THEN /\ tasks' = [tasks EXCEPT ![FirstFree] =
                    [h |-> "create_new_order", u |-> u,
                     row |-> NewRow(NextOrderId(ledger), u, UserName(u),
                                    Get(d, "chosen_cake", EmptyDict), Get(d, "taste", <<>>),
                                    Get(d, "size", <<>>), Get(d, "decor", <<>>), now)]]
              /\ outbox' = <<>>
              /\ UNCHANGED <<variant, catalog, ledger, fsm, pg>>
         ELSE ReplyAndSet(u, <<Reply(u, "order_failed")>>, Cleared)

\* a notification that reaches the first operator of the list only
NotifyAdmins_first(oid, sent) ==
    <<Notify(ADMIN_IDS[1], "new_order", oid, INITIAL_STATUS, sent[1])>>

\* for admin_id in ADMIN_IDS: try: bot.send_message(...) except: log
NotifyAdmins(oid, sent) ==
    [i \in 1..Len(ADMIN_IDS) |->
        Notify(ADMIN_IDS[i], "new_order", oid, INITIAL_STATUS, sent[i])]

\* a store that puts the new row above the others
append_row_top(i, ok, sent) ==
    /\ tasks[i].h = "create_new_order"
    /\ LET t == tasks[i] IN
         /\ ledger' = IF ok THEN <<t.row>> \o ledger ELSE ledger
         /\ outbox' = IF ok
                      THEN <<Msg(t.u, "order_placed", StrNat(t.row.OrderID), <<>>)>>
                           \o NotifyAdmins(StrNat(t.row.OrderID), sent)
                      ELSE <<Reply(t.u, "order_failed")>>
         /\ fsm' = [fsm EXCEPT ![t.u] = Cleared]
         /\ tasks' = [tasks EXCEPT ![i] = NoTask]
         /\ UNCHANGED <<variant, catalog, pg>>

\* an append that leaves the row in the sheet although it raised
append_row_torn(i, ok, sent) ==
    /\ tasks[i].h = "create_new_order"
    /\ LET t == tasks[i] IN
         /\ ledger' = Append(ledger, t.row)
         /\ outbox' = IF ok
                      THEN <<Msg(t.u, "order_placed", StrNat(t.row.OrderID), <<>>)>>
                           \o NotifyAdmins(StrNat(t.row.OrderID), sent)
                      ELSE <<Reply(t.u, "order_failed")>>
         /\ fsm' = [fsm EXCEPT ![t.u] = Cleared]
         /\ tasks' = [tasks EXCEPT ![i] = NoTask]
         /\ UNCHANGED <<variant, catalog, pg>>

\* append_row returns (ok) or raises, and the confirmation handler runs to its
\* end
append_row(i, ok, sent) ==
    /\ tasks[i].h = "create_new_order"
    /\ LET t == tasks[i] IN
         /\ ledger' = IF ok THEN Append(ledger, t.row) ELSE ledger
         /\ outbox' = IF ok
                      THEN <<Msg(t.u, "order_placed", StrNat(t.row.OrderID), <<>>)>>
                           \o NotifyAdmins(StrNat(t.row.OrderID), sent)
                      ELSE <<Reply(t.u, "order_failed")>>
         /\ fsm' = [fsm EXCEPT ![t.u] = Cleared]
         /\ tasks' = [tasks EXCEPT ![i] = NoTask]
         /\ UNCHANGED <<variant, catalog, pg>>

AppendRow(i) ==
    \E ok \in BOOLEAN, sent \in [1..Len(ADMIN_IDS) -> BOOLEAN] : append_row(i, ok, sent)

\* a confirmation handler whose reject branch sets the state and keeps the draft
user_confirming_order_keep(u, text) ==
    /\ Routed(u, text, "user_confirming_order")
    /\ LET response == IF variant = "user_bot" THEN Lower(text) ELSE Lower(Strip(text)) IN
       IF variant = "user_bot" /\ response = Lower(CANCEL_TEXT) THEN DoCancel(u)
       ELSE IF response = YES_TEXT
       THEN IF DraftReadable(variant, fsm[u].data)
            THEN BeginCreate(u, fsm[u].data)
            ELSE OnlyReply(WarnIfAdmin(u))
       ELSE IF response = NO_TEXT
       THEN ReplyAndSet(u, WarnIfAdmin(u) \o <<Reply(u, "order_cancelled")>>,
                [fsm[u] EXCEPT !.state = "Idle"])
       ELSE OnlyReply(WarnIfAdmin(u) \o <<Reply(u, "yes_or_no")>>)

\* the message handler of state Confirming (user_bot.py, combined_bot.py)
user_confirming_order(u, text) ==
    /\ Routed(u, text, "user_confirming_order")
    /\ LET response == IF variant = "user_bot" THEN Lower(text) ELSE Lower(Strip(text)) IN
       IF variant = "user_bot" /\ response = Lower(CANCEL_TEXT) THEN DoCancel(u)
       ELSE IF response = YES_TEXT
       THEN IF DraftReadable(variant, fsm[u].data)
            THEN BeginCreate(u, fsm[u].data)
            ELSE OnlyReply(WarnIfAdmin(u))
       ELSE IF response = NO_TEXT
       THEN ReplyAndSet(u, WarnIfAdmin(u) \o <<Reply(u, "order_cancelled")>>, Cleared)
       ELSE OnlyReply(WarnIfAdmin(u) \o <<Reply(u, "yes_or_no")>>)

\* the inline buttons "confirm_order:yes" / "confirm_order:no" (o3.py); the
\* handler is registered without a state filter
order_confirmation_callback(u, payload) ==
    /\ variant = "o3"
    /\ IF Lower(payload) = CB_NO
       THEN ReplyAndSet(u, <<Reply(u, "order_cancelled")>>, Cleared)
       ELSE BeginCreate(u, fsm[u].data)

-----------------------------------------------------------------------------
(* The operator track *)

\* a filter that takes the status whatever its letter case
pending_orders_loose(all_orders) ==
    SelectSeq(all_orders, LAMBDA o : Lower(o.status) # Lower(DELIVERED_STATUS))

\* [o for o in all_orders if o.get('status') != "Доставлен"]
pending_orders(all_orders) ==
    SelectSeq(all_orders, LAMBDA o : o.status # DELIVERED_STATUS)

\* "Просмотреть заказы" (/view_orders): the operator is shown the orders that
\* are not delivered; the session is not touched.  admin_bot.py lists every
\* order
admin_view_orders_menu(u, text) ==
    /\ Routed(u, text, "admin_view_orders_menu")
    /\ IF ~is_admin(u)
       THEN OnlyReply(<<Reply(u, "no_access")>>)
       ELSE \E ok \in BOOLEAN :
              LET all_orders == IF ok THEN ledger ELSE <<>>
                  filtered_orders ==
                      IF variant = "admin_bot" THEN all_orders
                      ELSE pending_orders(all_orders)
              IN  OnlyReply(<<Reply(u, IF all_orders = <<>> THEN "no_orders"
                                      ELSE IF filtered_orders = <<>> THEN "no_pending_orders"
                                      ELSE "orders")>>)

\* the update-status entry without the allow-list check
admin_update_status_menu_open(u, text) ==
    /\ Routed(u, text, "admin_update_status_menu")
    /\ ReplyAndSet(u, <<Reply(u, "ask_update")>>,
            [fsm[u] EXCEPT !.state = "UpdatingOrderStatus"])

\* "Обновить статус заказа" (o3.py, user_bot.py), /update_status (the others)
admin_update_status_menu(u, text) ==
    /\ Routed(u, text, "admin_update_status_menu")
    /\ IF ~is_admin(u)
       THEN OnlyReply(<<Reply(u, "no_access")>>)
       ELSE ReplyAndSet(u, <<Reply(u, "ask_update")>>,
                [fsm[u] EXCEPT !.state = "UpdatingOrderStatus"])

\* a lookup that goes on without the status column
LocateRow_anyhow(ok, hasStatus, order_id) ==
    IF ~ok THEN 0 ELSE FindRow(ledger, order_id)

\* update_order_status up to its call of update_cell: it reads the records and
\* the header row and looks the row up.  hasStatus: 'status' in headers (the
\* header row is edited outside the bot).  Yields the row index, 0 for failure.
LocateRow(ok, hasStatus, order_id) ==
    IF ~ok \/ ~hasStatus THEN 0 ELSE FindRow(ledger, order_id)

\* the answer to a failed update: combined_bot.py and admin_bot.py name the
\* order in it, o3.py and user_bot.py do not
UpdateFailed(u, order_id) ==
    IF variant \in {"combined_bot", "admin_bot"}
    THEN Msg(u, "update_failed", order_id, <<>>)
    ELSE Reply(u, "update_failed")

\* the handler of state UpdatingOrderStatus, up to update_cell; ok: the reads
\* of the sheet went through, hasStatus: its header row names a status column
process_update_status(u, text, ok, hasStatus) ==
    /\ Routed(u, text, "admin_process_update_status")
    /\ IF IsCancelInState(variant, text) THEN DoCancel(u)
       ELSE IF ~is_admin(u) THEN OnlyReply(<<Reply(u, "no_access")>>)
       ELSE LET parts == Split1(Strip(text)) IN
            IF Len(parts) # 2 THEN OnlyReply(<<Reply(u, "bad_format")>>)
            ELSE IF ~IsDigit(parts[1]) THEN OnlyReply(<<Reply(u, "id_not_number")>>)
            ELSE LET idx == LocateRow(ok, hasStatus, parts[1]) IN
                 IF idx = 0
                 THEN ReplyAndSet(u, <<UpdateFailed(u, parts[1])>>, Cleared)
                 ELSE /\ FreeSlots # {}
                      /\ tasks' = [tasks EXCEPT ![FirstFree] =
                            [h |-> "update_order_status", u |-> u, order_id |-> parts[1],
                             new_status |-> parts[2], idx |-> idx]]
                      /\ outbox' = <<>>
                      /\ UNCHANGED <<variant, catalog, ledger, fsm, pg>>

admin_process_update_status(u, text) ==
    \E ok \in BOOLEAN, hasStatus \in BOOLEAN : process_update_status(u, text, ok, hasStatus)

\* an update that goes on to the notification whether or not the cell was
\* written
update_cell_deaf(i, ok) ==
    /\ tasks[i].h = "update_order_status"
    /\ LET t == tasks[i] IN
         /\ ledger' = IF ok THEN UpdateCellAt(ledger, t.idx, t.new_status) ELSE ledger
         /\ IF variant = "admin_bot"
            THEN /\ outbox' = <<Msg(t.u, "status_updated", t.order_id, t.new_status)>>
                 /\ fsm' = [fsm EXCEPT ![t.u] = Cleared]
                 /\ tasks' = [tasks EXCEPT ![i] = NoTask]
            ELSE /\ outbox' = <<>>
                 /\ fsm' = fsm
                 /\ tasks' = [tasks EXCEPT ![i].h = "get_all_orders"]
         /\ UNCHANGED <<variant, catalog, pg>>

\* an update whose failure is answered without clearing the state
update_cell_stay(i, ok) ==
    /\ tasks[i].h = "update_order_status"
    /\ LET t == tasks[i] IN
         IF ~ok
         THEN /\ outbox' = <<UpdateFailed(t.u, t.order_id)>>
              /\ tasks' = [tasks EXCEPT ![i] = NoTask]
              /\ UNCHANGED <<variant, catalog, ledger, fsm, pg>>
         ELSE /\ ledger' = UpdateCellAt(ledger, t.idx, t.new_status)
              /\ IF variant = "admin_bot"
                 THEN /\ outbox' = <<Msg(t.u, "status_updated", t.order_id, t.new_status)>>
                      /\ fsm' = [fsm EXCEPT ![t.u] = Cleared]
                      /\ tasks' = [tasks EXCEPT ![i] = NoTask]
                 ELSE /\ outbox' = <<>>
                      /\ fsm' = fsm
                      /\ tasks' = [tasks EXCEPT ![i].h = "get_all_orders"]
              /\ UNCHANGED <<variant, catalog, pg>>

\* update_cell returns (ok) or raises.  admin_bot.py then answers and clears the
\* state; the other variants go on to read the orders again (get_all_orders)
update_cell(i, ok) ==
    /\ tasks[i].h = "update_order_status"
    /\ LET t == tasks[i] IN
         IF ~ok
         THEN /\ outbox' = <<UpdateFailed(t.u, t.order_id)>>
              /\ fsm' = [fsm EXCEPT ![t.u] = Cleared]
              /\ tasks' = [tasks EXCEPT ![i] = NoTask]
              /\ UNCHANGED <<variant, catalog, ledger, pg>>
         ELSE /\ ledger' = UpdateCellAt(ledger, t.idx, t.new_status)
              /\ IF variant = "admin_bot"
                 THEN /\ outbox' = <<Msg(t.u, "status_updated", t.order_id, t.new_status)>>
                      /\ fsm' = [fsm EXCEPT ![t.u] = Cleared]
                      /\ tasks' = [tasks EXCEPT ![i] = NoTask]
                 ELSE /\ outbox' = <<>>
                      /\ fsm' = fsm
                      /\ tasks' = [tasks EXCEPT ![i].h = "get_all_orders"]
              /\ UNCHANGED <<variant, catalog, pg>>

UpdateCell(i) == \E ok \in BOOLEAN : update_cell(i, ok)

\* send_status_update: one send_message to the customer, inside try/except
send_status_update(t, user_id, sent) ==
    Notify(user_id, "status_update", t.order_id, t.new_status, sent)

\* a notification whose failure ends the handler: the operator is not answered
\* and the state is not cleared
get_all_orders_abort(i, ok, sent) ==
    /\ tasks[i].h = "get_all_orders"
    /\ LET t == tasks[i]
           all_orders == IF ok THEN ledger ELSE <<>>
           k == FindRow(all_orders, t.order_id)
       IN  /\ outbox' =
                IF k # 0
                THEN <<send_status_update(t, IntOf(all_orders[k].user_id), sent)>>
                     \o (IF sent
                         THEN <<Msg(t.u, "status_updated_notified", t.order_id, t.new_status)>>
                         ELSE <<>>)
                ELSE <<Msg(t.u, "status_updated_not_notified", t.order_id, t.new_status)>>
           /\ fsm' = IF k # 0 /\ ~sent THEN fsm ELSE [fsm EXCEPT ![t.u] = Cleared]
           /\ tasks' = [tasks EXCEPT ![i] = NoTask]
           /\ UNCHANGED <<variant, catalog, ledger, pg>>

\* a re-read that takes the last order of that id
get_all_orders_latest(i, ok, sent) ==
    /\ tasks[i].h = "get_all_orders"
    /\ LET t == tasks[i]
           all_orders == IF ok THEN ledger ELSE <<>>
           hits == {r \in 1..Len(all_orders) : StrNat(all_orders[r].OrderID) = t.order_id}
           k == IF hits = {} THEN 0 ELSE CHOOSE r \in hits : \A q \in hits : r >= q
       IN  /\ outbox' =
                IF k # 0
                THEN <<send_status_update(t, IntOf(all_orders[k].user_id), sent),
                       Msg(t.u, "status_updated_notified", t.order_id, t.new_status)>>
                ELSE <<Msg(t.u, "status_updated_not_notified", t.order_id, t.new_status)>>
           /\ fsm' = [fsm EXCEPT ![t.u] = Cleared]
           /\ tasks' = [tasks EXCEPT ![i] = NoTask]
           /\ UNCHANGED <<variant, catalog, ledger, pg>>

\* a re-read that, finding no order, takes the written status back
get_all_orders_undo(i, ok, sent) ==
    /\ tasks[i].h = "get_all_orders"
    /\ LET t == tasks[i]
           all_orders == IF ok THEN ledger ELSE <<>>
           k == FindRow(all_orders, t.order_id)
       IN  /\ outbox' =
                IF k # 0
                THEN <<send_status_update(t, IntOf(all_orders[k].user_id), sent),
                       Msg(t.u, "status_updated_notified", t.order_id, t.new_status)>>
                ELSE <<Msg(t.u, "status_updated_not_notified", t.order_id, t.new_status)>>
           /\ ledger' = IF k # 0 THEN ledger
                        ELSE UpdateCellAt(ledger, t.idx, INITIAL_STATUS)
           /\ fsm' = [fsm EXCEPT ![t.u] = Cleared]
           /\ tasks' = [tasks EXCEPT ![i] = NoTask]
           /\ UNCHANGED <<variant, catalog, pg>>

\* get_all_orders returns (ok; [] when the store raises); the customer of the
\* first order with that id is notified, the operator is answered, the state
\* cleared
get_all_orders(i, ok, sent) ==
    /\ tasks[i].h = "get_all_orders"
    /\ LET t == tasks[i]
           all_orders == IF ok THEN ledger ELSE <<>>
           k == FindRow(all_orders, t.order_id)
       IN  /\ outbox' =
                IF k # 0
                THEN <<send_status_update(t, IntOf(all_orders[k].user_id), sent),
                       Msg(t.u, "status_updated_notified", t.order_id, t.new_status)>>
                ELSE <<Msg(t.u, "status_updated_not_notified", t.order_id, t.new_status)>>
           /\ fsm' = [fsm EXCEPT ![t.u] = Cleared]
           /\ tasks' = [tasks EXCEPT ![i] = NoTask]
           /\ UNCHANGED <<variant, catalog, ledger, pg>>

NotifyCustomer(i) == \E ok \in BOOLEAN, sent \in BOOLEAN : get_all_orders(i, ok, sent)

-----------------------------------------------------------------------------
(* The catalog sheet is edited outside the bot *)

EditCatalog ==
    /\ catalog = <<CakeAt(500)>>
    /\ catalog' = <<CakeAt(600)>>
    /\ outbox' = <<>>
    /\ UNCHANGED <<variant, ledger, fsm, tasks, pg>>

\* the last item is taken off the catalog sheet
EmptyCatalog ==
    /\ catalog # <<>>
    /\ catalog' = <<>>
    /\ outbox' = <<>>
    /\ UNCHANGED <<variant, ledger, fsm, tasks, pg>>

-----------------------------------------------------------------------------
(* Listings shown page by page *)

\* a slice that takes one element more
Slice_wide(seq, start, end) ==
    LET lo == IF start < Len(seq) THEN start ELSE Len(seq)
        hi == IF end + 1 < Len(seq) THEN end + 1 ELSE Len(seq)
    IN  [i \in 1..(hi - lo) |-> seq[lo + i]]

\* orders[start:end] of Python, for 0 <= start <= end
Slice(seq, start, end) ==
    LET lo == IF start < Len(seq) THEN start ELSE Len(seq)
        hi == IF end < Len(seq) THEN end ELSE Len(seq)
    IN  [i \in 1..(hi - lo) |-> seq[lo + i]]

\* the lines of one order in the page text
OrderLines(o) ==
    <<o.OrderID, o.cake_name, o.price, o.taste, o.size, o.decor, o.status, o.date>>

BACK_LABEL == <<"N","a","z","a","d">>
FORWARD_LABEL == <<"V","p","e","r","y","o","d">>

\* a pager that counts the full pages only
get_orders_page_floor(orders, page, page_size) ==
    LET pages == Len(orders) \div page_size
        chunk == Slice(orders, page * page_size, page * page_size + page_size)
    IN  [text |-> [i \in 1..Len(chunk) |-> OrderLines(chunk[i])],
         markup |-> (IF page > 0
                     THEN <<[label |-> BACK_LABEL, page |-> page - 1]>> ELSE <<>>)
                    \o (IF page < pages - 1
                        THEN <<[label |-> FORWARD_LABEL, page |-> page + 1]>> ELSE <<>>)]

\* a pager that offers "forward" on the last page too
get_orders_page_open(orders, page, page_size) ==
    LET pages == (Len(orders) + page_size - 1) \div page_size
        chunk == Slice(orders, page * page_size, page * page_size + page_size)
    IN  [text |-> [i \in 1..Len(chunk) |-> OrderLines(chunk[i])],
         markup |-> (IF page > 0
                     THEN <<[label |-> BACK_LABEL, page |-> page - 1]>> ELSE <<>>)
                    \o (IF page < pages
                        THEN <<[label |-> FORWARD_LABEL, page |-> page + 1]>> ELSE <<>>)]

\* the page text (the orders of the chunk) and the inline buttons, each with
\* the page its callback data names
get_orders_page_text_and_markup(orders, page, page_size) ==
    LET total == Len(orders)
        pages == (total + page_size - 1) \div page_size
        start == page * page_size
        end == start + page_size
        chunk == Slice(orders, start, end)
    IN  [text |-> [i \in 1..Len(chunk) |-> OrderLines(chunk[i])],
         markup |-> (IF page > 0
                     THEN <<[label |-> BACK_LABEL, page |-> page - 1]>> ELSE <<>>)
                    \o (IF page < pages - 1
                        THEN <<[label |-> FORWARD_LABEL, page |-> page + 1]>> ELSE <<>>)]

\* nothing is listed
NoPaging ==
    [user |-> 0, fetched |-> FALSE, orders |-> <<>>, page_size |-> 1, page |-> 0,
     text |-> <<>>, markup |-> <<>>, walk |-> "none", seen |-> {}]

\* the message that shows page `page` of the listing
Shown(page, walk, seen) ==
    LET r == get_orders_page_text_and_markup(pg.orders, page, pg.page_size)
    IN  [pg EXCEPT !.page = page, !.text = r.text, !.markup = r.markup,
                   !.walk = walk, !.seen = seen]

\* the tail of user_check_status, once the orders are fetched and sorted:
\* nothing to show, or page 0
ShowOrders ==
    /\ pg.walk = "none"
    /\ pg' = IF pg.orders = <<>> THEN [pg EXCEPT !.walk = "empty"]
             ELSE Shown(0, "next", {0})
    /\ UNCHANGED <<variant, catalog, ledger, fsm, tasks, outbox>>

\* a press of the button whose callback data names `page`, on a sheet that is
\* as it was when the listing was fetched
orders_pagination_callback(page) ==
    /\ pg.walk \in {"next", "previous"}
    /\ \E k \in 1..Len(pg.markup) : pg.markup[k].page = page
    /\ pg.orders # <<>>
    /\ pg' = IF page > pg.page THEN Shown(page, "next", pg.seen \cup {page})
             ELSE Shown(page, "previous", pg.seen)
    /\ UNCHANGED <<variant, catalog, ledger, fsm, tasks, outbox>>

\* a date cell that strptime(date, "%Y-%m-%d %H:%M:%S") does not parse (the
\* cell is empty); every other date cell is a timestamp
BAD_DATE == 0
DateParses(date) == date # BAD_DATE

\* x put into a sequence that descends by date, behind the records that are not
\* older than x
InsertDesc(sorted, x) ==
    LET k == Cardinality({i \in 1..Len(sorted) : sorted[i].date >= x.date})
    IN  SubSeq(sorted, 1, k) \o <<x>> \o SubSeq(sorted, k + 1, Len(sorted))

\* sorted(orders, key=date, reverse=True): newest first, records of the same
\* date in the order they had
RECURSIVE SortDesc(_)
SortDesc(orders) ==
    IF orders = <<>> THEN <<>>
    ELSE InsertDesc(SortDesc(SubSeq(orders, 1, Len(orders) - 1)), orders[Len(orders)])

\* a sort that skips the records whose date does not parse and lists them last
sorted_orders_skip(orders) ==
    SortDesc(SelectSeq(orders, LAMBDA o : DateParses(o.date)))
        \o SelectSeq(orders, LAMBDA o : ~DateParses(o.date))

\* try: sorted(...) except: sorted_orders = orders.  The key of every record is
\* computed before anything is ordered, so one bad date fails the whole sort
sorted_orders(orders) ==
    IF \A i \in 1..Len(orders) : DateParses(orders[i].date)
    THEN SortDesc(orders)
    ELSE orders

\* the page size of the customer's listing
StatusPageSize(v) == IF v = "o3" THEN 1 ELSE 5

\* user_check_status (cmd_status of combined_bot.py) up to the fetch and the
\* sort of the participant's orders; o3.py turns the operator away before
user_check_status(u) ==
    /\ variant # "admin_bot"
    /\ ~(variant = "o3" /\ is_admin(u))
    /\ \E ok \in BOOLEAN :
         pg' = [NoPaging EXCEPT !.user = u, !.fetched = ok,
                                !.orders = sorted_orders(
                                              get_all_orders_by_user(ok, ledger, u)),
                                !.page_size = StatusPageSize(variant)]
    /\ UNCHANGED <<variant, catalog, ledger, fsm, tasks, outbox>>

\* orders_pagination_callback as a whole: the page comes from the callback data
\* of a button that was rendered, the participant's orders are fetched again and
\* sorted, and the page is rendered with no check of its range.  No orders (or a
\* read that raises): the message is replaced by "no orders yet".
orders_page_pressed(page, ok) ==
    /\ pg.walk \in {"next", "previous"}
    /\ \E k \in 1..Len(pg.markup) : pg.markup[k].page = page
    /\ LET orders == sorted_orders(get_all_orders_by_user(ok, ledger, pg.user))
           r == get_orders_page_text_and_markup(orders, page, StatusPageSize(variant))
       IN  pg' = IF orders = <<>>
                 THEN [pg EXCEPT !.fetched = ok, !.orders = <<>>, !.text = <<>>,
                                 !.markup = <<>>, !.walk = "empty"]
                 ELSE [pg EXCEPT !.fetched = ok, !.orders = orders, !.page = page,
                                 !.text = r.text, !.markup = r.markup,
                                 !.walk = IF page > pg.page THEN "next"
                                          ELSE "previous",
                                 !.seen = pg.seen \cup {page}]
    /\ UNCHANGED <<variant, catalog, ledger, fsm, tasks, outbox>>

\* the page size of the operator's listing
ViewPageSize == 10

\* for page in range(pages): one message with the orders of
\* sorted_orders[start:end]
view_pages(orders, page_size) ==
    LET pages == (Len(orders) + page_size - 1) \div page_size
    IN  [p \in 1..pages |->
            LET chunk == Slice(orders, (p - 1) * page_size, (p - 1) * page_size + page_size)
            IN  [i \in 1..Len(chunk) |-> OrderLines(chunk[i])]]

\* the operator's listing (o3.py, user_bot.py, combined_bot.py) once the
\* operator is let in: the orders not delivered, sorted, a message per page
admin_view_orders(u) ==
    /\ variant # "admin_bot"
    /\ is_admin(u)
    /\ \E ok \in BOOLEAN :
         LET all_orders == IF ok THEN ledger ELSE <<>>
             listed == sorted_orders(pending_orders(all_orders))
         IN  pg' = [NoPaging EXCEPT !.user = u, !.fetched = ok, !.orders = listed,
                                    !.page_size = ViewPageSize,
                                    !.text = view_pages(listed, ViewPageSize),
                                    !.walk = "all"]
    /\ UNCHANGED <<variant, catalog, ledger, fsm, tasks, outbox>>

-----------------------------------------------------------------------------
(* The system *)

\* the orders sheet admin_bot.py works on is filled by the customers' bot
SeedLedger ==
    <<NewRow(1, 1, UserName(1), CakeAt(500), T_dark, T_8, T_none, 1),
      NewRow(2, 2, UserName(2), CakeAt(500), T_dark, T_8, T_none, 1)>>

Init ==
    /\ variant \in Variants
    /\ catalog = <<CakeAt(500)>>
    /\ ledger = IF variant = "admin_bot" THEN SeedLedger ELSE <<>>
    /\ fsm = [u \in Participants |-> Cleared]
    /\ tasks = [i \in 1..MaxTasks |-> NoTask]
    /\ outbox = <<>>
    /\ pg = NoPaging

\* no handler is suspended
Quiet == \A i \in 1..MaxTasks : tasks[i] = NoTask

\* the customer and the operator of the dialogue
Talkers == {1, ADMIN_IDS[1]}

\* One customer and the operator; events are handled one at a time: a handler,
\* with its calls of the store, runs to its end before the next event is handled.
Next ==
    \/ /\ Quiet
       /\ \E u \in Talkers : \E text \in Inputs(variant, u, fsm[u].state) :
            \/ handle_start(u, text)
            \/ handle_cancel(u, text)
            \/ user_make_order(u, text)
            \/ user_choosing_cake(u, text)
            \/ user_choosing_taste(u, text)
            \/ user_choosing_size(u, text)
            \/ user_choosing_decor(u, text)
            \/ user_confirming_order(u, text)
            \/ admin_update_status_menu(u, text)
            \/ admin_process_update_status(u, text)
    \/ /\ Quiet
       /\ \E u \in Talkers : \E payload \in Payloads(variant, fsm[u].state) :
            order_confirmation_callback(u, payload)
    \/ \E i \in 1..MaxTasks :
         \/ AppendRow(i)
         \/ UpdateCell(i)
         \/ NotifyCustomer(i)

Spec == Init /\ [][Next]_vars

\* The same, with one customer and a catalog whose price is edited meanwhile.
NextCatalog ==
    \/ /\ Quiet
       /\ \E text \in Inputs(variant, 1, fsm[1].state) :
            \/ handle_start(1, text)
            \/ handle_cancel(1, text)
            \/ user_make_order(1, text)
            \/ user_choosing_cake(1, text)
            \/ user_choosing_taste(1, text)
            \/ user_choosing_size(1, text)
            \/ user_choosing_decor(1, text)
            \/ user_confirming_order(1, text)
    \/ /\ Quiet
       /\ \E payload \in Payloads(variant, fsm[1].state) :
            order_confirmation_callback(1, payload)
    \/ \E i \in 1..MaxTasks : AppendRow(i)
    \/ EditCatalog

InitCatalog == Init /\ variant # "admin_bot"

SpecCatalog == InitCatalog /\ [][NextCatalog]_vars

\* One customer and a catalog that is emptied meanwhile.
NextShelf ==
    \/ /\ Quiet
       /\ \E text \in Inputs(variant, 1, fsm[1].state) :
            \/ handle_start(1, text)
            \/ handle_cancel(1, text)
            \/ user_make_order(1, text)
            \/ user_choosing_cake(1, text)
            \/ user_choosing_taste(1, text)
            \/ user_choosing_size(1, text)
            \/ user_choosing_decor(1, text)
            \/ user_confirming_order(1, text)
    \/ /\ Quiet
       /\ \E payload \in Payloads(variant, fsm[1].state) :
            order_confirmation_callback(1, payload)
    \/ \E i \in 1..MaxTasks : AppendRow(i)
    \/ EmptyCatalog

SpecShelf == InitCatalog /\ [][NextShelf]_vars

\* One customer who orders along the prompts or cancels, and presses the
\* buttons of a confirmation prompt at any time.
NextButton ==
    \/ /\ Quiet
       /\ \E text \in ButtonInputs(variant, fsm[1].state) :
            \/ handle_cancel(1, text)
            \/ user_make_order(1, text)
            \/ user_choosing_cake(1, text)
            \/ user_choosing_taste(1, text)
            \/ user_choosing_size(1, text)
            \/ user_choosing_decor(1, text)
            \/ user_confirming_order(1, text)
    \/ /\ Quiet
       /\ \E payload \in LatePayloads(variant) :
            order_confirmation_callback(1, payload)
    \/ \E i \in 1..MaxTasks : AppendRow(i)

SpecButton == InitCatalog /\ [][NextButton]_vars

\* One customer who orders along the prompts, with any size text.
NextSize ==
    \/ /\ Quiet
       /\ \E text \in SizeInputs(variant, fsm[1].state) :
            \/ user_make_order(1, text)
            \/ user_choosing_cake(1, text)
            \/ user_choosing_taste(1, text)
            \/ user_choosing_size(1, text)
            \/ user_choosing_decor(1, text)
            \/ user_confirming_order(1, text)
    \/ /\ Quiet
       /\ \E payload \in Payloads(variant, fsm[1].state) \ {CB_NO} :
            order_confirmation_callback(1, payload)
    \/ \E i \in 1..MaxTasks : AppendRow(i)

SpecSize == InitCatalog /\ [][NextSize]_vars

\* Two customers and the operator, who follow the prompts; handlers run as
\* concurrent tasks (aiogram's polling starts a task per
\* update): a handler suspended at a call of the store lets other events in.
Racers == Customers \cup {ADMIN_IDS[1]}

NextRace ==
    \/ \E u \in Racers : \E text \in PlainInputs(variant, u, fsm[u].state) :
         \/ user_make_order(u, text)
         \/ user_choosing_cake(u, text)
         \/ user_choosing_taste(u, text)
         \/ user_choosing_size(u, text)
         \/ user_choosing_decor(u, text)
         \/ user_confirming_order(u, text)
         \/ admin_update_status_menu(u, text)
         \/ admin_process_update_status(u, text)
    \/ \E u \in Racers : \E payload \in Payloads(variant, fsm[u].state) \ {CB_NO} :
         order_confirmation_callback(u, payload)
    \/ \E i \in 1..MaxTasks :
         \/ AppendRow(i)
         \/ UpdateCell(i)
         \/ NotifyCustomer(i)

SpecRace == Init /\ [][NextRace]_vars

\* Roles crossed: orders exist; the operator also tries the customer's actions
\* and the customer tries the operator's.
InitRoles ==
    /\ variant \in Variants
    /\ catalog = <<CakeAt(500)>>
    /\ ledger = <<SeedLedger[1]>>
    /\ fsm = [u \in Participants |-> Cleared]
    /\ tasks = [i \in 1..MaxTasks |-> NoTask]
    /\ outbox = <<>>
    /\ pg = NoPaging

NextRoles ==
    \/ /\ Quiet
       /\ \E u \in Talkers : \E text \in RoleInputs(variant, u, fsm[u].state) :
            \/ handle_start(u, text)
            \/ handle_cancel(u, text)
            \/ user_make_order(u, text)
            \/ user_choosing_cake(u, text)
            \/ user_choosing_taste(u, text)
            \/ user_choosing_size(u, text)
            \/ user_choosing_decor(u, text)
            \/ user_confirming_order(u, text)
            \/ admin_view_orders_menu(u, text)
            \/ admin_update_status_menu(u, text)
            \/ admin_process_update_status(u, text)
    \/ \E i \in 1..MaxTasks :
         \/ AppendRow(i)
         \/ UpdateCell(i)
         \/ NotifyCustomer(i)

SpecRoles == InitRoles /\ [][NextRoles]_vars

\* The operator alone, updating the order of a sheet that holds one.
NextStatus ==
    \/ /\ Quiet
       /\ \E text \in StatusInputs(variant, ADMIN_IDS[1], fsm[ADMIN_IDS[1]].state) :
            \/ admin_update_status_menu(ADMIN_IDS[1], text)
            \/ admin_process_update_status(ADMIN_IDS[1], text)
    \/ \E i \in 1..MaxTasks :
         \/ UpdateCell(i)
         \/ NotifyCustomer(i)

SpecStatus == InitRoles /\ [][NextStatus]_vars

\* The pager alone: a listing of up to MaxRecs orders and a page size are given;
\* the reader follows "forward" from page 0, then, from any page, "back".
PageOrder(k) == NewRow(k, 1, UserName(1), CakeAt(500), T_dark, T_8, T_none, 1)

RECURSIVE SeqsUpTo(_, _)
SeqsUpTo(S, n) ==
    IF n = 0 THEN {<<>>}
    ELSE LET shorter == SeqsUpTo(S, n - 1)
         IN  shorter \cup {Append(q, x) : q \in shorter, x \in S}

InitPage ==
    /\ variant = "o3"
    /\ catalog = <<CakeAt(500)>>
    /\ ledger = <<>>
    /\ fsm = [u \in Participants |-> Cleared]
    /\ tasks = [i \in 1..MaxTasks |-> NoTask]
    /\ outbox = <<>>
    /\ \E orders \in SeqsUpTo({PageOrder(1), PageOrder(2)}, MaxRecs) :
       \E page_size \in 1..MaxPageSize :
          pg = [NoPaging EXCEPT !.orders = orders, !.page_size = page_size]

FollowForward ==
    /\ pg.walk = "next"
    /\ orders_pagination_callback(pg.page + 1)

FollowBack == orders_pagination_callback(pg.page - 1)

NextPage ==
    \/ ShowOrders
    \/ FollowForward
    \/ FollowBack

SpecPage == InitPage /\ [][NextPage]_vars

\* The customer's pager of o3.py over a sheet that changes between the listing
\* and the presses: orders of the two customers are placed (create_new_order
\* run to its end) and statuses are set (update_order_status run to its end),
\* one call at a time.
STATUS_OK == <<"o", "k">>

create_new_order(u) ==
    /\ Len(ledger) < MaxPress
    /\ ledger' = Append(ledger, NewRow(NextOrderId(ledger), u, UserName(u),
                                       CakeAt(500), T_dark, T_8, T_none, 1))
    /\ UNCHANGED <<variant, catalog, fsm, tasks, outbox, pg>>

update_order_status(order_id, new_status) ==
    /\ FindRow(ledger, order_id) # 0
    /\ ledger' = UpdateCellAt(ledger, FindRow(ledger, order_id), new_status)
    /\ ledger' # ledger
    /\ UNCHANGED <<variant, catalog, fsm, tasks, outbox, pg>>

InitPress ==
    /\ variant = "o3"
    /\ catalog = <<CakeAt(500)>>
    /\ ledger = <<>>
    /\ fsm = [u \in Participants |-> Cleared]
    /\ tasks = [i \in 1..MaxTasks |-> NoTask]
    /\ outbox = <<>>
    /\ pg = NoPaging

NextPress ==
    \/ \E u \in {1, 2} : create_new_order(u)
    \/ \E n \in 1..MaxPress : update_order_status(StrNat(n), STATUS_OK)
    \/ user_check_status(1)
    \/ ShowOrders
    \/ \E page \in 0..MaxPress : \E ok \in BOOLEAN : orders_page_pressed(page, ok)

SpecPress == InitPress /\ [][NextPress]_vars

\* The listing alone: an orders sheet of up to MaxRecs rows whose user_id cells
\* are as the sheet gives them; participants ask for their orders.
UserIdCells ==
    {<<"1">>, <<"2">>, <<" ","1"," ">>, <<"1","2">>, <<"0","1">>}

SheetRow(k, cell) == [PageOrder(k) EXCEPT !.user_id = cell]

RECURSIVE Sheets(_)
Sheets(n) ==
    IF n = 0 THEN {<<>>}
    ELSE LET shorter == Sheets(n - 1)
         IN  shorter \cup {Append(q, SheetRow(Len(q) + 1, cell)) :
                              q \in {r \in shorter : Len(r) = n - 1}, cell \in UserIdCells}

InitList ==
    /\ variant \in Variants \ {"admin_bot"}
    /\ catalog = <<CakeAt(500)>>
    /\ ledger \in Sheets(MaxSheet)
    /\ fsm = [u \in Participants |-> Cleared]
    /\ tasks = [i \in 1..MaxTasks |-> NoTask]
    /\ outbox = <<>>
    /\ pg = NoPaging

NextList ==
    \/ \E u \in Participants : user_check_status(u)
    \/ ShowOrders

SpecList == InitList /\ [][NextList]_vars

\* The sort alone: an orders sheet of up to MaxSort rows of customer 1 whose
\* date cells are timestamps or do not parse; the customer asks for the orders.
SortDates == {BAD_DATE, 1, 2}

DatedRow(k, date) == [PageOrder(k) EXCEPT !.date = date]

RECURSIVE DatedSheets(_)
DatedSheets(n) ==
    IF n = 0 THEN {<<>>}
    ELSE LET shorter == DatedSheets(n - 1)
         IN  shorter \cup {Append(q, DatedRow(Len(q) + 1, date)) :
                              q \in {r \in shorter : Len(r) = n - 1}, date \in SortDates}

InitSort ==
    /\ variant \in Variants \ {"admin_bot"}
    /\ catalog = <<CakeAt(500)>>
    /\ ledger \in DatedSheets(MaxSort)
    /\ fsm = [u \in Participants |-> Cleared]
    /\ tasks = [i \in 1..MaxTasks |-> NoTask]
    /\ outbox = <<>>
    /\ pg = NoPaging

NextSort ==
    \/ user_check_status(1)
    \/ ShowOrders

SpecSort == InitSort /\ [][NextSort]_vars

\* The operator's listing alone: an orders sheet of up to MaxView rows, each
\* delivered or not (the first row, when not, with the status in small
\* letters), dated in turn 2, 1, 2, ...; the operator asks for the orders, and
\* may ask again.
ViewRow(k, delivered) ==
    [PageOrder(k) EXCEPT
        !.status = IF delivered THEN DELIVERED_STATUS
                   ELSE IF k = 1 THEN Lower(DELIVERED_STATUS) ELSE INITIAL_STATUS,
        !.date = (k % 2) + 1]

RECURSIVE ViewSheets(_)
ViewSheets(n) ==
    IF n = 0 THEN {<<>>}
    ELSE LET shorter == ViewSheets(n - 1)
         IN  shorter \cup {Append(q, ViewRow(Len(q) + 1, delivered)) :
                              q \in {r \in shorter : Len(r) = n - 1},
                              delivered \in BOOLEAN}

InitView ==
    /\ variant \in Variants \ {"admin_bot"}
    /\ catalog = <<CakeAt(500)>>
    /\ ledger \in ViewSheets(MaxView)
    /\ fsm = [u \in Participants |-> Cleared]
    /\ tasks = [i \in 1..MaxTasks |-> NoTask]
    /\ outbox = <<>>
    /\ pg = NoPaging

NextView == admin_view_orders(ADMIN_IDS[1])

SpecView == InitView /\ [][NextView]_vars

-----------------------------------------------------------------------------
(* Properties *)

\* some message of the last step tells participant `to` of order `oid`
Told(to, kind, oid) ==
    \E k \in 1..Len(outbox) :
        outbox[k].to = to /\ outbox[k].kind = kind /\ outbox[k].oid = oid

\* C1: when creations run one after another on a ledger that starts without
\* data rows, the i-th row carries OrderID i (1, 2, 3, ...), every append adds
\* one row whose id is the last id plus one (1 on the empty ledger), and that
\* id is the one reported to the customer.
C1_SequentialIds ==
    /\ [](\A i \in 1..Len(ledger) : ledger[i].OrderID = i)
    /\ [][Len(ledger') # Len(ledger) =>
            /\ Len(ledger') = Len(ledger) + 1
            /\ SubSeq(ledger', 1, Len(ledger)) = ledger
            /\ ledger'[Len(ledger')].OrderID =
                   IF ledger = <<>> THEN 1 ELSE ledger[Len(ledger)].OrderID + 1
            /\ \E k \in 1..Len(outbox') :
                   /\ outbox'[k].kind = "order_placed"
                   /\ outbox'[k].to = IntOf(ledger'[Len(ledger')].user_id)
                   /\ outbox'[k].oid = StrNat(ledger'[Len(ledger')].OrderID)]_vars

\* C1's case: a second order has just been placed and reported as number 2
C1_Witness ==
    /\ variant # "admin_bot"
    /\ Len(ledger) = 2
    /\ ledger[2].OrderID = 2
    /\ Told(1, "order_placed", <<"2">>)

\* C2: whatever the interleaving of the creations, no two rows of the ledger
\* carry the same OrderID and the OrderIDs increase strictly in append order.
C2_UniqueIncreasingIds ==
    \A i, j \in 1..Len(ledger) : i < j => ledger[i].OrderID < ledger[j].OrderID

\* the step is the handling of message `text` from participant u
Handles(u, text) ==
    \/ handle_start(u, text)
    \/ handle_cancel(u, text)
    \/ user_make_order(u, text)
    \/ user_choosing_cake(u, text)
    \/ user_choosing_taste(u, text)
    \/ user_choosing_size(u, text)
    \/ user_choosing_decor(u, text)
    \/ user_confirming_order(u, text)
    \/ admin_update_status_menu(u, text)
    \/ admin_process_update_status(u, text)

\* C3: the cancel text, received in any state but Idle, leaves the session in
\* Idle with an empty draft (so the text is stored in no draft field) and the
\* ledger as it was.
C3_CancelReturnsToIdle ==
    [][\A u \in Participants :
          (fsm[u].state # "Idle" /\ Handles(u, CANCEL_TEXT)) =>
              (fsm'[u] = Cleared /\ ledger' = ledger)]_vars

\* C4: an update of the status of an order id that no row of the ledger carries
\* fails: the operator is told so, no cell is written (no write is started)
\* and every row of the ledger stays as it was.
C4_UnknownIdFails ==
    [][\A u \in Participants : \A text \in ReplyTexts("UpdatingOrderStatus") :
          LET parts == Split1(Strip(text)) IN
          (/\ is_admin(u)
           /\ admin_process_update_status(u, text)
           /\ Len(parts) = 2
           /\ IsDigit(parts[1])
           /\ \A i \in 1..Len(ledger) : StrNat(ledger[i].OrderID) # parts[1])
          => (/\ ledger' = ledger
              /\ tasks' = tasks
              /\ outbox' = <<UpdateFailed(u, parts[1])>>)]_vars

\* C4's case: the ledger holds order 1 only and the operator has just been
\* told that the update of order 2 failed
C4_Witness ==
    /\ Len(ledger) = 1
    /\ ledger[1].OrderID = 1
    /\ ledger[1].status = INITIAL_STATUS
    /\ Told(ADMIN_IDS[1], "update_failed", <<"2">>)

\* the status notifications among the messages msgs
StatusNotes(msgs) == SelectSeq(msgs, LAMBDA m : m.kind = "status_update")

\* C5: when the operator's "<id> <status>" names an existing order and the
\* store calls succeed, the update that is started carries that id and that
\* status, the write sets the status cell of that order to exactly <status>
\* and leaves every other cell alone, and the handling ends with exactly one
\* notification, sent to the customer of that row and carrying <status>.
C5_UpdateNotifiesOwner ==
    [][/\ \A u \in Participants, id \in {<<"1">>, <<"2">>}, st \in {<<"o","k">>} :
            (/\ admin_process_update_status(u, id \o <<" ">> \o st)
             /\ tasks' # tasks)
            => \E i \in 1..MaxTasks :
                  /\ tasks[i] = NoTask
                  /\ tasks'[i].order_id = id
                  /\ tasks'[i].new_status = st
                  /\ StrNat(ledger[tasks'[i].idx].OrderID) = id
       /\ \A i \in 1..MaxTasks :
            update_cell(i, TRUE) =>
               /\ Len(ledger') = Len(ledger)
               /\ \A r \in 1..Len(ledger) :
                     ledger'[r] = IF r = tasks[i].idx
                                  THEN [ledger[r] EXCEPT !.status = tasks[i].new_status]
                                  ELSE ledger[r]
       /\ \A i \in 1..MaxTasks :
            (\/ (variant = "admin_bot" /\ update_cell(i, TRUE))
             \/ \E sent \in BOOLEAN : get_all_orders(i, TRUE, sent))
            => /\ Len(StatusNotes(outbox')) = 1
               /\ StatusNotes(outbox')[1].to = IntOf(ledger'[tasks[i].idx].user_id)
               /\ StatusNotes(outbox')[1].status = tasks[i].new_status
               /\ StatusNotes(outbox')[1].oid = tasks[i].order_id
               /\ ledger'[tasks[i].idx].status = tasks[i].new_status]_vars

\* C6: an operator input "<word> <status>" whose first token is not a number
\* is turned down as it is read: no update is started, the ledger and the
\* operator's session (state AwaitingStatusUpdateInput, here
\* UpdatingOrderStatus) stay as they were, and the only message is the
\* complaint to the operator, so nobody is notified.
C6_NonNumericIdRejected ==
    [][\A u \in Participants :
          (is_admin(u) /\ admin_process_update_status(u, T_abc_ok)) =>
              /\ ledger' = ledger
              /\ tasks' = tasks
              /\ fsm'[u] = fsm[u]
              /\ fsm'[u].state = "UpdatingOrderStatus"
              /\ outbox' = <<Reply(u, "id_not_number")>>]_vars

\* C6's case: orders exist and the operator has just been told that the id
\* must be a number
C6_Witness ==
    /\ Len(ledger) >= 1
    /\ fsm[ADMIN_IDS[1]].state = "UpdatingOrderStatus"
    /\ outbox = <<Reply(ADMIN_IDS[1], "id_not_number")>>

\* C7: the cake a customer selects is the catalog item of that name as the
\* catalog stands then; a confirmed full draft whose append succeeds adds
\* exactly one row, which carries the next OrderID, the initial status, the
\* customer, and the name and price of the selected item and the taste, size
\* and decor of the draft; and no row's cake name or price ever changes
\* afterwards, whatever happens to the catalog.
C7_OrderSnapshot ==
    [][/\ \A text \in ReplyTexts("ChoosingCake") :
            (user_choosing_cake(1, text) /\ fsm'[1].state = "ChoosingTaste") =>
               \E c \in 1..Len(catalog) :
                  /\ fsm'[1].data.chosen_cake = catalog[c]
                  /\ Lower(catalog[c].name) = Lower(Strip(text))
       /\ \A i \in 1..MaxTasks : \A sent \in [1..Len(ADMIN_IDS) -> BOOLEAN] :
            append_row(i, TRUE, sent) =>
               LET d == fsm[tasks[i].u].data
                   new == ledger'[Len(ledger')]
               IN  /\ fsm[tasks[i].u].state = "Confirming"
                   /\ ledger' = Append(ledger, new)
                   /\ new.OrderID = Len(ledger) + 1
                   /\ new.status = INITIAL_STATUS
                   /\ new.user_id = StrNat(tasks[i].u)
                   /\ new.cake_name = d.chosen_cake.name
                   /\ new.price = StrNat(d.chosen_cake.price)
                   /\ new.taste = d.taste /\ new.size = d.size /\ new.decor = d.decor
       /\ Len(ledger') >= Len(ledger)
       /\ Len(ledger') <= Len(ledger) + 1
       /\ \A r \in 1..Len(ledger) :
            /\ ledger'[r].price = ledger[r].price
            /\ ledger'[r].cake_name = ledger[r].cake_name]_vars

\* C7's case: an order placed at price 500 is still stored at 500 after the
\* catalog price went to 600, and a later order is stored at 600
C7_Witness ==
    /\ catalog[1].price = 600
    /\ Len(ledger) = 2
    /\ ledger[1].price = <<"5","0","0">>
    /\ ledger[2].price = <<"6","0","0">>
    /\ ledger[1].status = INITIAL_STATUS
    /\ ledger[2].OrderID = 2

\* ceil(n / s)
Ceil(n, s) == CHOOSE k \in 0..n : k * s >= n /\ (k - 1) * s < n

\* the shown page offers the button with this label
Offers(label) == \E k \in 1..Len(pg.markup) : pg.markup[k].label = label

\* C8: for a listing of n >= 1 records and page size s >= 1, the reader who
\* follows "forward" from page 0 has seen pages 0 .. p when on page p, is
\* offered "forward" exactly while p < ceil(n/s) - 1, so ends on page
\* ceil(n/s) - 1 having visited exactly ceil(n/s) pages; and the reader who
\* follows "back" is offered it exactly while p > 0, so ends on page 0.
C8_WalkVisitsAllPages ==
    (pg.walk \in {"next", "previous"}) =>
        LET n == Len(pg.orders)
            last == Ceil(n, pg.page_size) - 1
        IN  /\ n >= 1
            /\ pg.page \in 0..last
            /\ pg.walk = "next" => pg.seen = 0..pg.page
            /\ pg.walk = "previous" => pg.seen \subseteq 0..last
            /\ Offers(FORWARD_LABEL) <=> pg.page < last
            /\ Offers(BACK_LABEL) <=> pg.page > 0
            /\ \A k \in 1..Len(pg.markup) :
                  pg.markup[k].page = IF pg.markup[k].label = FORWARD_LABEL
                                      THEN pg.page + 1 ELSE pg.page - 1

\* C8's case: five records, two to a page: the reader went forward through
\* pages 0, 1, 2 and then back to page 0
C8_Witness ==
    /\ Len(pg.orders) = 5
    /\ pg.page_size = 2
    /\ pg.seen = {0, 1, 2}
    /\ pg.walk = "previous"
    /\ pg.page = 0
    /\ ~Offers(BACK_LABEL)

\* the texts of pages 0 .. last, one after another
RECURSIVE PagesText(_, _, _)
PagesText(orders, page_size, last) ==
    IF last < 0 THEN <<>>
    ELSE PagesText(orders, page_size, last - 1)
         \o get_orders_page_text_and_markup(orders, last, page_size).text

\* C9: the shown page p holds, in their order, the records at positions
\* p*s .. p*s+s-1 that exist; it offers "back" iff p > 0 and "forward" iff
\* p < pageCount - 1; and the pages 0 .. pageCount-1 one after another give
\* every record of the listing exactly once, in order.
C9_PageContents ==
    (pg.walk \in {"next", "previous"}) =>
        LET n == Len(pg.orders)
            s == pg.page_size
            p == pg.page
            pageCount == Ceil(n, s)
            k == IF n - p * s < s THEN n - p * s ELSE s
        IN  /\ Len(pg.text) = k
            /\ \A i \in 1..k : pg.text[i] = OrderLines(pg.orders[p * s + i])
            /\ Offers(BACK_LABEL) <=> p > 0
            /\ Offers(FORWARD_LABEL) <=> p < pageCount - 1
            /\ PagesText(pg.orders, s, pageCount - 1) =
                  [i \in 1..n |-> OrderLines(pg.orders[i])]

\* C9's case: the last page of five records, three to a page, holds the two
\* records left
C9_Witness ==
    /\ Len(pg.orders) = 5
    /\ pg.page_size = 3
    /\ pg.page = 1
    /\ pg.walk = "next"
    /\ Len(pg.text) = 2
    /\ pg.text[1] = OrderLines(pg.orders[4])
    /\ pg.orders[4] # pg.orders[5]

\* a cell without its blanks (the cells of the listed sheets have none inside)
Unpadded(cell) == SelectSeq(cell, LAMBDA c : c # " ")

\* the rows of the sheet whose user_id cell, trimmed, is the decimal text of id
\* (ids of one digit)
RowsOf(id) == {i \in 1..Len(ledger) : Unpadded(ledger[i].user_id) = <<DIGITS[id + 1]>>}

\* the k-th smallest element of a set of numbers
Kth(S, k) == CHOOSE i \in S : Cardinality({j \in S : j <= i}) = k

\* C10: when the sheet is read, the listing for a participant holds exactly
\* the rows whose user_id cell, as text trimmed of blanks, equals the
\* participant's id as text (so " 1 " is customer 1's and "01", "12", "2" are
\* not), each once and in sheet order.
C10_ListByCustomer ==
    (pg.user # 0 /\ pg.fetched) =>
        /\ Len(pg.orders) = Cardinality(RowsOf(pg.user))
        /\ \A k \in 1..Len(pg.orders) : pg.orders[k] = ledger[Kth(RowsOf(pg.user), k)]

\* C10's case: of the rows "2", "1", "01", " 1 " customer 1 is listed the second
\* and the fourth
C10_Witness ==
    /\ Len(ledger) = 4
    /\ ledger[1].user_id = <<"2">>
    /\ ledger[2].user_id = <<"1">>
    /\ ledger[3].user_id = <<"0","1">>
    /\ ledger[4].user_id = <<" ","1"," ">>
    /\ pg.user = 1
    /\ pg.fetched
    /\ pg.orders = <<ledger[2], ledger[4]>>

\* the states of the customer track
OrderStates ==
    {"ChoosingCake", "ChoosingTaste", "ChoosingSize", "ChoosingDecor", "Confirming"}

\* C11: an operator's session is never in a state of the customer track, no
\* creation runs on behalf of an operator and no row of the ledger carries an
\* operator's identity: the customer-track actions of an operator are denied.
C11_OperatorNeverOrders ==
    \A k \in 1..Len(ADMIN_IDS) :
        LET a == ADMIN_IDS[k] IN
          /\ fsm[a].state \notin OrderStates
          /\ \A i \in 1..MaxTasks :
                tasks[i].h = "create_new_order" => tasks[i].u # a
          /\ \A r \in 1..Len(ledger) : ledger[r].user_id # StrNat(a)

\* the texts of the operator's two menu actions
OperatorTexts == {UPDATE_STATUS_TEXT, CMD_UPDATE_STATUS, VIEW_ORDERS_TEXT, CMD_VIEW_ORDERS}

\* the answers of the operator track that are not the denial
OperatorAnswers ==
    {"ask_update", "orders", "no_orders", "no_pending_orders", "bad_format",
     "id_not_number", "update_failed", "status_updated", "status_updated_notified",
     "status_updated_not_notified"}

\* C12: a participant outside ADMIN_IDS is never in UpdatingOrderStatus and no
\* status update runs on their behalf; when the update-status or view-orders
\* handler takes their message the only answer is the denial and the session
\* and the ledger stay as they were; no answer of the operator track goes to
\* them; and whenever a status cell changes, the update was started by an
\* operator.
C12_NonOperatorDenied ==
    /\ [](\A u \in Participants :
            ~is_admin(u) =>
              /\ fsm[u].state # "UpdatingOrderStatus"
              /\ \A i \in 1..MaxTasks :
                    tasks[i].h \in {"update_order_status", "get_all_orders"}
                        => tasks[i].u # u)
    /\ [][\A u \in Participants : \A text \in OperatorTexts :
            (~is_admin(u) /\ (admin_update_status_menu(u, text)
                              \/ admin_view_orders_menu(u, text)))
              => /\ outbox' = <<Reply(u, "no_access")>>
                 /\ fsm' = fsm
                 /\ ledger' = ledger]_vars
    /\ [][\A k \in 1..Len(outbox') :
            outbox'[k].kind \in OperatorAnswers => is_admin(outbox'[k].to)]_vars
    /\ [][(\E r \in 1..Len(ledger) :
              r <= Len(ledger') /\ ledger'[r].status # ledger[r].status)
            => \E i \in 1..MaxTasks :
                 /\ tasks[i].h = "update_order_status"
                 /\ is_admin(tasks[i].u)]_vars

\* a customer asked for the update-status action was denied, while the ledger
\* holds an order whose status an operator has changed
C12_Witness ==
    /\ outbox = <<Reply(1, "no_access")>>
    /\ fsm[1].state = "Idle"
    /\ \E r \in 1..Len(ledger) : ledger[r].status # INITIAL_STATUS

\* the positions of the new-order notifications to operator a among msgs
NewOrderNotes(msgs, a) ==
    {k \in 1..Len(msgs) : msgs[k].kind = "new_order" /\ msgs[k].to = a}

\* C13: when the append of a creation succeeds, the customer is told the
\* OrderID of the row that was appended and exactly one new-order notification
\* naming that id is attempted to each operator of ADMIN_IDS; a new-order
\* notification is attempted only in a step that appended the row it names, so
\* none is attempted when the creation fails or the customer rejects.
C13_AcceptNotifies ==
    /\ [][\A i \in 1..MaxTasks : \A sent \in [1..Len(ADMIN_IDS) -> BOOLEAN] :
            append_row(i, TRUE, sent) =>
              LET oid == StrNat(ledger'[Len(ledger')].OrderID) IN
                /\ Len(ledger') = Len(ledger) + 1
                /\ \E k \in 1..Len(outbox') :
                      /\ outbox'[k].to = tasks[i].u
                      /\ outbox'[k].kind = "order_placed"
                      /\ outbox'[k].oid = oid
                /\ \A a \in Participants :
                      /\ Cardinality(NewOrderNotes(outbox', a)) = (IF is_admin(a) THEN 1 ELSE 0)
                      /\ \A k \in NewOrderNotes(outbox', a) : outbox'[k].oid = oid]_vars
    /\ [][\A k \in 1..Len(outbox') :
            outbox'[k].kind = "new_order" =>
              /\ Len(ledger') = Len(ledger) + 1
              /\ outbox'[k].oid = StrNat(ledger'[Len(ledger')].OrderID)]_vars
    /\ [][\A i \in 1..MaxTasks : \A sent \in [1..Len(ADMIN_IDS) -> BOOLEAN] :
            append_row(i, FALSE, sent) =>
              \A k \in 1..Len(outbox') : outbox'[k].kind # "new_order"]_vars

\* the customer's order was appended as order 1, the customer was told so and
\* both operators were notified, the send to the first having failed
C13_Witness ==
    /\ Len(ledger) = 1
    /\ ledger[1].user_id = <<"1">>
    /\ outbox = <<Msg(1, "order_placed", <<"1">>, <<>>),
                  Notify(ADMIN_IDS[1], "new_order", <<"1">>, INITIAL_STATUS, FALSE),
                  Notify(ADMIN_IDS[2], "new_order", <<"1">>, INITIAL_STATUS, TRUE)>>

\* participant u gives the affirmative answer in Confirming (the text "Да" in
\* user_bot.py and combined_bot.py, the button confirm_order:yes in o3.py)
AcceptStep(u) ==
    /\ fsm[u].state = "Confirming"
    /\ \/ \E text \in ReplyTexts("Confirming") :
            /\ (IF variant = "user_bot" THEN Lower(text) ELSE Lower(Strip(text))) = YES_TEXT
            /\ user_confirming_order(u, text)
       \/ order_confirmation_callback(u, CB_YES)

\* C14: when a creation fails, at the read of the sheet (the accept step starts
\* no append) or at the append itself, the handler goes on as after a returned
\* failure: the customer is told that the order could not be placed, the ledger
\* is as before, the draft is dropped and the session is Idle; and whenever the
\* customer is told so, no row was added and no operator was notified.
C14_FailedCreate ==
    /\ [][\A u \in Participants :
            (AcceptStep(u) /\ tasks' = tasks) =>
              /\ \E k \in 1..Len(outbox') : outbox'[k] = Reply(u, "order_failed")
              /\ ledger' = ledger
              /\ fsm'[u] = Cleared]_vars
    /\ [][\A i \in 1..MaxTasks : \A sent \in [1..Len(ADMIN_IDS) -> BOOLEAN] :
            append_row(i, FALSE, sent) =>
              /\ outbox' = <<Reply(tasks[i].u, "order_failed")>>
              /\ ledger' = ledger
              /\ fsm'[tasks[i].u] = Cleared
              /\ tasks'[i] = NoTask]_vars
    /\ [][\A k \in 1..Len(outbox') :
            outbox'[k].kind = "order_failed" =>
              /\ ledger' = ledger
              /\ fsm'[outbox'[k].to] = Cleared
              /\ \A j \in 1..Len(outbox') :
                    outbox'[j].kind \notin {"order_placed", "new_order"}]_vars

\* after one order was placed, a second creation of the same customer failed:
\* the customer was told, the ledger still holds the one row, the session is
\* Idle without a draft
C14_Witness ==
    /\ outbox = <<Reply(1, "order_failed")>>
    /\ Len(ledger) = 1
    /\ ledger[1].user_id = <<"1">>
    /\ fsm[1] = Cleared
    /\ Quiet

\* participant u gives the negative answer in Confirming (the text "Нет" in
\* user_bot.py and combined_bot.py, the button confirm_order:no in o3.py)
RejectStep(u) ==
    /\ fsm[u].state = "Confirming"
    /\ \/ \E text \in ReplyTexts("Confirming") :
            /\ (IF variant = "user_bot" THEN Lower(text) ELSE Lower(Strip(text))) = NO_TEXT
            /\ user_confirming_order(u, text)
       \/ order_confirmation_callback(u, CB_NO)

\* C15: the negative answer in Confirming leaves the ledger as it was, starts no
\* creation, sends nothing but the answer to the participant, drops the draft
\* and returns the session to Idle; and whenever the cancellation is answered
\* the ledger is unchanged and the session of the addressee is Idle without a
\* draft.
C15_RejectLeavesLedger ==
    /\ [][\A u \in Participants :
            RejectStep(u) =>
              /\ ledger' = ledger
              /\ tasks' = tasks
              /\ \A k \in 1..Len(outbox') : outbox'[k].to = u
              /\ \E k \in 1..Len(outbox') : outbox'[k] = Reply(u, "order_cancelled")
              /\ fsm'[u] = Cleared]_vars
    /\ [][\A k \in 1..Len(outbox') :
            outbox'[k].kind = "order_cancelled" =>
              /\ ledger' = ledger
              /\ tasks' = tasks
              /\ fsm'[outbox'[k].to] = Cleared
              /\ \A j \in 1..Len(outbox') :
                    outbox'[j].kind \notin {"order_placed", "new_order", "status_update"}]_vars

\* the customer placed one order, filled a second draft and rejected it: the
\* ledger still holds the one row and the session is Idle without a draft
C15_Witness ==
    /\ outbox = <<Reply(1, "order_cancelled")>>
    /\ Len(ledger) = 1
    /\ ledger[1].user_id = <<"1">>
    /\ fsm[1] = Cleared
    /\ Quiet

\* the answer given in Confirming, as the handler of the variant reads it
Response(text) == IF variant = "user_bot" THEN Lower(text) ELSE Lower(Strip(text))

\* C16 (size): a text that the handler of ChoosingSize takes and that is neither
\* the cancel word nor all digits leaves the session (state ChoosingSize, cake
\* and taste collected so far) as it was.
C16_WrongSizeKeepsDraft ==
    [][\A u \in Participants : \A text \in ReplyTexts("ChoosingSize") :
          (/\ user_choosing_size(u, text)
           /\ ~IsCancelInState(variant, text)
           /\ ~IsDigit(Strip(text)))
            => /\ fsm' = fsm
               /\ fsm[u].state = "ChoosingSize"
               /\ ledger' = ledger]_vars

\* C16: input of the wrong shape neither advances nor resets the session: the
\* size as above, and an answer in Confirming that is neither the affirmative
\* nor the negative value (nor the cancel word) leaves the state Confirming and
\* the draft as they were, starts no creation and appends no row.
C16_WrongShapeKeepsSession ==
    /\ C16_WrongSizeKeepsDraft
    /\ [][\A u \in Participants :
            (/\ fsm[u].state = "Confirming"
             /\ \/ \E text \in ReplyTexts("Confirming") :
                     /\ Response(text) \notin {YES_TEXT, NO_TEXT, Lower(CANCEL_TEXT)}
                     /\ user_confirming_order(u, text)
                \/ \E payload \in Payloads(variant, "Confirming") :
                     /\ Lower(payload) \notin {CB_YES, CB_NO}
                     /\ order_confirmation_callback(u, payload))
              => /\ fsm'[u] = fsm[u]
                 /\ tasks' = tasks
                 /\ ledger' = ledger]_vars

\* C17: a send that fails changes nothing else.  After a failed notification
\* of the customer the new status is in the ledger, the operator is answered
\* and the operator's session is Idle; after a successful append the new row is
\* the last row of the ledger and the customer's session is Idle whichever
\* sends to operators failed, and every operator of ADMIN_IDS has a send
\* attempted, also those after a failed one; and in every step with a failed
\* send no row is lost and the participant answered in that step is Idle.
C17_FailedSendKeepsMutation ==
    /\ [][\A i \in 1..MaxTasks : \A ok \in BOOLEAN :
            (/\ get_all_orders(i, ok, FALSE)
             /\ \E k \in 1..Len(outbox') : ~outbox'[k].sent)
              => /\ ledger' = ledger
                 /\ ledger'[tasks[i].idx].status = tasks[i].new_status
                 /\ fsm'[tasks[i].u] = Cleared
                 /\ \E k \in 1..Len(outbox') :
                       outbox'[k].to = tasks[i].u /\ outbox'[k].sent]_vars
    /\ [][\A i \in 1..MaxTasks : \A sent \in [1..Len(ADMIN_IDS) -> BOOLEAN] :
            append_row(i, TRUE, sent)
              => /\ ledger' = Append(ledger, tasks[i].row)
                 /\ fsm'[tasks[i].u] = Cleared
                 /\ \A a \in 1..Len(ADMIN_IDS) :
                       \E k \in 1..Len(outbox') :
                          /\ outbox'[k].to = ADMIN_IDS[a]
                          /\ outbox'[k].kind = "new_order"
                          /\ outbox'[k].sent = sent[a]]_vars
    /\ [][(\E k \in 1..Len(outbox') : ~outbox'[k].sent)
            => /\ Len(ledger') >= Len(ledger)
               /\ \E j \in 1..Len(outbox') :
                     outbox'[j].sent /\ fsm'[outbox'[j].to] = Cleared]_vars

\* the operator set order 1 to "ok", the notification of its customer failed:
\* the status is stored, the operator was answered and is Idle
C17_Witness ==
    /\ Len(ledger) >= 1
    /\ ledger[1].status = <<"o","k">>
    /\ outbox = <<Notify(1, "status_update", <<"1">>, <<"o","k">>, FALSE),
                  Msg(ADMIN_IDS[1], "status_updated_notified", <<"1">>, <<"o","k">>)>>
    /\ fsm[ADMIN_IDS[1]] = Cleared

\* the rows of the ledger whose status cell differs between two ledgers
StatusChanged(old, new) ==
    {r \in 1..Len(old) : r <= Len(new) /\ new[r].status # old[r].status}

\* C18: in every step, also with handlers interleaved, the ledger keeps its rows
\* in place (at most one row is added, at the end), every row keeps all its
\* cells other than the status, at most one row changes its status, and a
\* status changes only in a step of update_cell, which adds no row.
C18_AppendOnlyStatusOnly ==
    [][/\ Len(ledger') \in {Len(ledger), Len(ledger) + 1}
       /\ \A r \in 1..Len(ledger) :
             [ledger'[r] EXCEPT !.status = ledger[r].status] = ledger[r]
       /\ Cardinality(StatusChanged(ledger, ledger')) <= 1
       /\ StatusChanged(ledger, ledger') # {}
            => /\ Len(ledger') = Len(ledger)
               /\ \E i \in 1..MaxTasks : update_cell(i, TRUE)]_vars

\* two orders were placed and the first was given the status "ok": the second
\* still has the initial status and both rows are in place
C18_Witness ==
    /\ Len(ledger) = 2
    /\ ledger[1].OrderID = 1
    /\ ledger[1].status = <<"o","k">>
    /\ ledger[2].status = INITIAL_STATUS
    /\ ledger[2].user_id # ledger[1].user_id

\* C19: every row of the ledger has a non-empty status: create_new_order writes
\* the fixed initial status and a status taken from the operator's text is the
\* second part of the split, which is never the empty string.
C19_StatusNonEmpty ==
    /\ INITIAL_STATUS # <<>>
    /\ \A r \in 1..Len(ledger) : ledger[r].status # <<>>
    /\ \A i \in 1..MaxTasks :
          /\ tasks[i].h = "create_new_order" => tasks[i].row.status # <<>>
          /\ tasks[i].h = "update_order_status" => tasks[i].new_status # <<>>

\* order 1 was given the status "ok" by the operator, whose next text, an id
\* followed by blanks only, was turned down
C19_Witness ==
    /\ Len(ledger) >= 1
    /\ ledger[1].status = <<"o","k">>
    /\ fsm[ADMIN_IDS[1]].state = "UpdatingOrderStatus"
    /\ outbox = <<Reply(ADMIN_IDS[1], "bad_format")>>

\* a size cell that reads as a positive integer
PositiveSize(size) == IsDigit(size) /\ IntOf(size) >= 1

\* C20: the size of every draft that has left ChoosingSize, of every row about
\* to be appended and of every row of the ledger is a positive integer.
C20_SizePositive ==
    /\ \A u \in Participants :
          HasKeys(fsm[u].data, {"size"}) => PositiveSize(fsm[u].data["size"])
    /\ \A i \in 1..MaxTasks :
          tasks[i].h = "create_new_order" => PositiveSize(tasks[i].row.size)
    /\ \A r \in 1..Len(ledger) : PositiveSize(ledger[r].size)

\* the number of whitespace-separated tokens of a text
TokenCount(s) == Len(SplitAll(s))

\* the texts an operator may send in UpdatingOrderStatus
StatusTexts == StatusInputs(variant, ADMIN_IDS[1], "UpdatingOrderStatus")

\* the operator's text was turned down with a prompt: nothing but the answer
\* changed
Reprompted(u) ==
    /\ outbox' \in {<<Reply(u, "bad_format")>>, <<Reply(u, "id_not_number")>>}
    /\ fsm' = fsm
    /\ fsm[u].state = "UpdatingOrderStatus"
    /\ ledger' = ledger
    /\ tasks' = tasks

\* C21 as stated: a text taken in UpdatingOrderStatus that has not exactly two
\* tokens, or whose first token is not a number, is turned down with a prompt,
\* the session stays and the ledger is unchanged.
C21_ExactlyTwoTokens ==
    [][\A text \in StatusTexts :
          (/\ admin_process_update_status(ADMIN_IDS[1], text)
           /\ ~IsCancelInState(variant, text)
           /\ (TokenCount(text) # 2 \/ ~IsDigit(SplitAll(text)[1])))
            => Reprompted(ADMIN_IDS[1])]_vars

\* C21, amended: a text with fewer than two tokens or with a first token that
\* is not a number is turned down with a prompt, the session stays and the
\* ledger is unchanged; a text with a numeric first token and one or more
\* further tokens is taken, and the status handed to the store is everything
\* after the first run of blanks.
C21_TwoPartsAccepted ==
    [][\A text \in StatusTexts :
          (/\ admin_process_update_status(ADMIN_IDS[1], text)
           /\ ~IsCancelInState(variant, text))
            => IF TokenCount(text) < 2 \/ ~IsDigit(SplitAll(text)[1])
               THEN Reprompted(ADMIN_IDS[1])
               ELSE /\ \A k \in 1..Len(outbox') :
                         outbox'[k].kind \notin {"bad_format", "id_not_number"}
                    /\ \/ /\ \E k \in 1..Len(outbox') : outbox'[k].kind = "update_failed"
                          /\ fsm'[ADMIN_IDS[1]] = Cleared
                          /\ ledger' = ledger
                       \/ \E i \in 1..MaxTasks :
                            /\ tasks[i] = NoTask
                            /\ tasks'[i].h = "update_order_status"
                            /\ tasks'[i].order_id = SplitAll(text)[1]
                            /\ Len(tasks'[i].new_status) >= Len(SplitAll(text)[2])
                            /\ (TokenCount(text) > 2
                                  => \E c \in 1..Len(tasks'[i].new_status) :
                                        IsSpace(tasks'[i].new_status[c]))]_vars

\* the text "1 a  b " was taken: order 1 carries the status "a  b", blanks
\* inside it kept
C21_Witness ==
    /\ Len(ledger) >= 1
    /\ ledger[1].OrderID = 1
    /\ ledger[1].status = <<"a"," "," ","b">>

\* C22: a session has at most one creation in flight, and a row is appended
\* only for a session that still waits in Confirming, whose draft no earlier
\* append has used up: an affirmative answer delivered twice appends one row.
C22_OneRowPerDraft ==
    /\ [](\A i, j \in 1..MaxTasks :
            (/\ i # j
             /\ tasks[i].h = "create_new_order"
             /\ tasks[j].h = "create_new_order") => tasks[i].u # tasks[j].u)
    /\ [][\A i \in 1..MaxTasks : \A sent \in [1..Len(ADMIN_IDS) -> BOOLEAN] :
            append_row(i, TRUE, sent) => fsm[tasks[i].u].state = "Confirming"]_vars

\* a step of the interleaved system that handles an event of participant a: a
\* message or button press of a, or the return of a store call made for a
RaceStepOf(a) ==
    \/ \E text \in PlainInputs(variant, a, fsm[a].state) :
         \/ user_make_order(a, text)
         \/ user_choosing_cake(a, text)
         \/ user_choosing_taste(a, text)
         \/ user_choosing_size(a, text)
         \/ user_choosing_decor(a, text)
         \/ user_confirming_order(a, text)
         \/ admin_update_status_menu(a, text)
         \/ admin_process_update_status(a, text)
    \/ \E payload \in Payloads(variant, fsm[a].state) :
         order_confirmation_callback(a, payload)
    \/ \E i \in 1..MaxTasks :
         /\ tasks[i] # NoTask
         /\ tasks[i].u = a
         /\ (AppendRow(i) \/ UpdateCell(i) \/ NotifyCustomer(i))

\* the taste customer c gives when it follows the prompts
TasteOf(c) == Strip(CHOOSE t \in PlainInputs(variant, c, "ChoosingTaste") : TRUE)

\* C23: under every interleaving, a step changes the state or the draft of at
\* most one participant, and only a step that handles an event of that
\* participant does so: handling an event of a leaves every other session as it
\* was; a creation started for a takes its row from a's identity and a's draft; the
\* row appended is that row; and every row of the ledger that carries a
\* customer's id carries that customer's name and taste.
C23_SessionsIsolated ==
    /\ [][\A b \in Participants :
            fsm'[b] # fsm[b] =>
              /\ b \in Racers
              /\ RaceStepOf(b)
              /\ \A c \in Participants \ {b} : fsm'[c] = fsm[c]]_vars
    /\ [][\A i \in 1..MaxTasks :
            (tasks[i] = NoTask /\ tasks'[i].h = "create_new_order") =>
              LET a == tasks'[i].u
                  d == fsm[a].data
                  r == tasks'[i].row
              IN  /\ RaceStepOf(a)
                  /\ r.user_id = StrNat(a)
                  /\ r.user_name = UserName(a)
                  /\ r.cake_name = d["chosen_cake"].name
                  /\ r.taste = d["taste"]
                  /\ r.size = d["size"]
                  /\ r.decor = d["decor"]]_vars
    /\ [][\A i \in 1..MaxTasks : \A sent \in [1..Len(ADMIN_IDS) -> BOOLEAN] :
            append_row(i, TRUE, sent) => ledger'[Len(ledger')] = tasks[i].row]_vars
    /\ [](\A r \in 1..Len(ledger) : \A c \in Customers :
            (variant # "admin_bot" /\ ledger[r].user_id = StrNat(c)) =>
              /\ ledger[r].user_name = UserName(c)
              /\ ledger[r].taste = TasteOf(c))

\* both customers ordered, their dialogues interleaved: each row has its own
\* customer's taste
C23_Witness ==
    /\ variant = "user_bot"
    /\ Len(ledger) = 2
    /\ ledger[1].user_id = <<"2">>
    /\ ledger[1].taste = T_none
    /\ ledger[2].user_id = <<"1">>
    /\ ledger[2].taste = T_dark

\* C24: the listing shown to the customer holds every record of the result set
\* once; when every date parses it descends by date, and when some date does
\* not parse it is the result set in store order.
C24_SortAllOrNothing ==
    (pg.user = 1 /\ pg.fetched) =>
        /\ Len(pg.orders) = Len(ledger)
        /\ \A k \in 1..Len(ledger) :
              Cardinality({j \in 1..Len(pg.orders) : pg.orders[j] = ledger[k]}) = 1
        /\ IF \A k \in 1..Len(ledger) : DateParses(ledger[k].date)
           THEN \A i, j \in 1..Len(pg.orders) :
                   i < j => pg.orders[i].date >= pg.orders[j].date
           ELSE pg.orders = ledger

\* the sheet holds orders dated 1, unreadable, 2: they are listed as stored,
\* the newest last
C24_Witness ==
    /\ Len(ledger) = 3
    /\ ledger[1].date = 1
    /\ ledger[2].date = BAD_DATE
    /\ ledger[3].date = 2
    /\ pg.user = 1
    /\ pg.fetched
    /\ pg.orders = ledger
    /\ pg.walk = "next"

\* the answers that report the outcome of a status update to the operator
UpdateOutcomes ==
    {"update_failed", "status_updated", "status_updated_notified",
     "status_updated_not_notified"}

\* the text passes the format check of the UpdatingOrderStatus handler
ValidUpdateText(text) ==
    /\ Len(Split1(Strip(text))) = 2
    /\ IsDigit(Split1(Strip(text))[1])

\* C25: the handling of an operator text that passed the format check ends with
\* the operator's session Idle and the outcome reported, whether the update
\* failed before the write, failed at the write, succeeded with the customer
\* notified, or succeeded with the order not found again; and an outcome is
\* reported only to a session that is then Idle.
C25_ValidUpdateEndsIdle ==
    /\ [][\A u \in Participants :
          \A text \in StatusInputs(variant, u, "UpdatingOrderStatus") :
            (/\ admin_process_update_status(u, text)
             /\ is_admin(u)
             /\ ~IsCancelInState(variant, text)
             /\ ValidUpdateText(text)
             /\ tasks' = tasks)
              => /\ fsm'[u] = Cleared
                 /\ \E k \in 1..Len(outbox') :
                       outbox'[k].to = u /\ outbox'[k].kind = "update_failed"]_vars
    /\ [][\A i \in 1..MaxTasks :
            (/\ tasks[i].h \in {"update_order_status", "get_all_orders"}
             /\ tasks'[i] = NoTask)
              => /\ fsm'[tasks[i].u] = Cleared
                 /\ \E k \in 1..Len(outbox') :
                       /\ outbox'[k].to = tasks[i].u
                       /\ outbox'[k].kind \in UpdateOutcomes]_vars
    /\ [][\A k \in 1..Len(outbox') :
            outbox'[k].kind \in UpdateOutcomes => fsm'[outbox'[k].to] = Cleared]_vars
    /\ [](\A i \in 1..MaxTasks :
            tasks[i].h \in {"update_order_status", "get_all_orders"}
                => fsm[tasks[i].u].state = "UpdatingOrderStatus")

\* the status of order 1 was written but the order was not found when the
\* sheet was read again: the operator is told so and is Idle
C25_Witness ==
    /\ Len(ledger) >= 1
    /\ ledger[1].status = <<"o","k">>
    /\ outbox = <<Msg(ADMIN_IDS[1], "status_updated_not_notified", <<"1">>, <<"o","k">>)>>
    /\ fsm[ADMIN_IDS[1]] = Cleared
    /\ Quiet

\* the steps of the customer track, in the order of the prompts
FlowSteps ==
    {<<"Idle", "ChoosingCake">>, <<"ChoosingCake", "ChoosingTaste">>,
     <<"ChoosingTaste", "ChoosingSize">>, <<"ChoosingSize", "ChoosingDecor">>,
     <<"ChoosingDecor", "Confirming">>, <<"Confirming", "Idle">>}

\* C26: a customer's session changes state only by one step of the track
\* Idle, ChoosingCake, ChoosingTaste, ChoosingSize, ChoosingDecor, Confirming,
\* Idle, or by a cancel/reset to Idle; so ChoosingCake is entered only from
\* Idle and Confirming only through the four accepted answers in their order.
C26_TrackInOrder ==
    [][\A u \in Customers :
          fsm'[u].state # fsm[u].state
             => \/ <<fsm[u].state, fsm'[u].state>> \in FlowSteps
                \/ fsm'[u] = Cleared]_vars

\* the catalog items whose name is the typed text, letter case and outer
\* blanks aside
Matching(cat, text) ==
    {c \in 1..Len(cat) : Lower(cat[c].name) = Lower(Strip(text))}

\* C27: a text handled in ChoosingCake is compared, letter case aside, with the
\* names of the catalog as fetched then.  With a match, the item (its name and
\* the price of that fetch) is put into the draft, the rest of the draft is
\* kept and the session is in ChoosingTaste; without a match, or when the
\* fetch fails, the customer is told so and session and draft are as before.
\* The row written at confirmation carries the name and price of the draft,
\* whatever the catalog shows by then.
C27_CakeMatchedAndKept ==
    [][/\ \A text \in ReplyTexts("ChoosingCake") : \A ok \in BOOLEAN :
            (choosing_cake(1, text, ok) /\ ~IsCancelInState(variant, text)) =>
               IF ok /\ Matching(catalog, text) # {}
               THEN LET c == CHOOSE c \in Matching(catalog, text) :
                                 \A j \in Matching(catalog, text) : c <= j
                    IN  /\ fsm'[1].state = "ChoosingTaste"
                        /\ fsm'[1].data.chosen_cake.name = catalog[c].name
                        /\ fsm'[1].data.chosen_cake.price = catalog[c].price
                        /\ \A k \in DOMAIN fsm[1].data \ {"chosen_cake"} :
                              /\ k \in DOMAIN fsm'[1].data
                              /\ fsm'[1].data[k] = fsm[1].data[k]
                        /\ Told(1, "ask_taste", <<>>)'
               ELSE /\ fsm' = fsm
                    /\ Told(1, "no_such_cake", <<>>)'
       /\ \A i \in 1..MaxTasks : \A sent \in [1..Len(ADMIN_IDS) -> BOOLEAN] :
            (append_row(i, TRUE, sent) /\ tasks[i].u = 1) =>
               /\ "chosen_cake" \in DOMAIN fsm[1].data
               /\ ledger'[Len(ledger')].price = StrNat(fsm[1].data.chosen_cake.price)
               /\ ledger'[Len(ledger')].cake_name = fsm[1].data.chosen_cake.name]_vars

\* the cake was typed as "choc " at price 500; the row has just been written
\* at 500 although the catalog shows 600 by now
C27_Witness ==
    /\ catalog[1].price = 600
    /\ Len(ledger) = 1
    /\ ledger[1].cake_name = <<"C","h","o","c">>
    /\ ledger[1].price = <<"5","0","0">>
    /\ Len(outbox) >= 1
    /\ outbox[1].kind = "order_placed"

\* participant u sends the message `text` and its handler runs
TextStep(u, text) ==
    \/ handle_start(u, text)
    \/ handle_cancel(u, text)
    \/ user_make_order(u, text)
    \/ user_choosing_cake(u, text)
    \/ user_choosing_taste(u, text)
    \/ user_choosing_size(u, text)
    \/ user_choosing_decor(u, text)
    \/ user_confirming_order(u, text)
    \/ admin_update_status_menu(u, text)
    \/ admin_process_update_status(u, text)

\* C28: whatever text but a cancel signal (the cancel text; /start, which
\* resets the session, is counted as one) the customer sends in ChoosingTaste,
\* the texts of the menu buttons included, is stored as the taste of the draft
\* and the session is in ChoosingSize; whatever such text the customer sends
\* in ChoosingDecor is stored as the decor and the session is in Confirming.
C28_TasteAndDecorFreeText ==
    [][\A text \in Inputs(variant, 1, fsm[1].state) \ {CANCEL_TEXT, CMD_START} :
          TextStep(1, text) =>
             /\ fsm[1].state = "ChoosingTaste"
                   => /\ fsm'[1].state = "ChoosingSize"
                      /\ fsm'[1].data = Put(fsm[1].data, "taste", Strip(text))
             /\ fsm[1].state = "ChoosingDecor"
                   => /\ fsm'[1].state = "Confirming"
                      /\ fsm'[1].data = Put(fsm[1].data, "decor", Strip(text))]_vars

\* C29: when the start of an order finds the catalog empty, or the fetch fails
\* (the accessor then hands out the empty sequence), the customer is told that
\* the catalog is empty and the session keeps its state and its draft, an Idle
\* session staying Idle; nothing is written to the ledger.
C29_EmptyCatalogKeepsSession ==
    [][\A text \in Inputs(variant, 1, fsm[1].state) : \A ok \in BOOLEAN :
          (make_order(1, text, ok) /\ (~ok \/ catalog = <<>>)) =>
             /\ FetchCatalog(ok) = <<>>
             /\ fsm' = fsm
             /\ outbox' = <<Reply(1, "catalog_empty")>>
             /\ ledger' = ledger
             /\ tasks' = tasks]_vars

\* the customer asked to order with nothing in the catalog and is still Idle
C29_Witness ==
    /\ catalog = <<>>
    /\ fsm[1] = Cleared
    /\ outbox = <<Reply(1, "catalog_empty")>>
    /\ ledger = <<>>

\* the rows of the sheet that carry the OrderID order_id
RowsOfId(rows, order_id) ==
    {r \in 1..Len(rows) : StrNat(rows[r].OrderID) = order_id}

\* C30: when the store accepts the write, an update of an OrderID that several
\* rows share puts the new status into the first of them in sheet order and
\* into no other row, nothing else of the sheet changes, and the update is
\* reported as a success.
C30_FirstOfSharedId ==
    [][\A i \in 1..MaxTasks :
          update_cell(i, TRUE) =>
             LET hits == RowsOfId(ledger, tasks[i].order_id)
                 first == CHOOSE r \in hits : \A q \in hits : r <= q
             IN  /\ hits # {}
                 /\ tasks[i].idx = first
                 /\ Len(ledger') = Len(ledger)
                 /\ ledger'[first] = [ledger[first] EXCEPT !.status = tasks[i].new_status]
                 /\ \A r \in 1..Len(ledger) : r # first => ledger'[r] = ledger[r]
                 /\ \A k \in 1..Len(outbox') : outbox'[k].kind # "update_failed"
                 /\ \/ tasks'[i].h = "get_all_orders"
                    \/ \E k \in 1..Len(outbox') :
                          /\ outbox'[k].to = tasks[i].u
                          /\ outbox'[k].kind = "status_updated"]_vars

\* two rows carry OrderID 1; the update of order 1 has reached the first only
C30_Witness ==
    /\ Len(ledger) = 2
    /\ ledger[1].OrderID = 1
    /\ ledger[2].OrderID = 1
    /\ ledger[1].status = <<"o","k">>
    /\ ledger[2].status = INITIAL_STATUS

\* C31: when the status was written but the order is not found when the sheet
\* is read again (the read failed and gave no rows), the operator alone is
\* answered, with "status changed, customer not notified"; no notification goes
\* to a customer; and the ledger is as the write left it, the new status in
\* the written row.
C31_NotFoundAfterWrite ==
    [][\A i \in 1..MaxTasks : \A ok \in BOOLEAN, sent \in BOOLEAN :
          (/\ get_all_orders(i, ok, sent)
           /\ FindRow(IF ok THEN ledger ELSE <<>>, tasks[i].order_id) = 0)
            => /\ outbox' = <<Msg(tasks[i].u, "status_updated_not_notified",
                                  tasks[i].order_id, tasks[i].new_status)>>
               /\ \A k \in 1..Len(outbox') : outbox'[k].kind # "status_update"
               /\ ledger' = ledger
               /\ ledger'[tasks[i].idx].status = tasks[i].new_status
               /\ StrNat(ledger'[tasks[i].idx].OrderID) = tasks[i].order_id]_vars

\* order 1 was given the status "a  b", the second read failed: the status is
\* in the sheet and the operator is told the customer was not notified
C31_Witness ==
    /\ Len(ledger) = 1
    /\ ledger[1].status = <<"a"," "," ","b">>
    /\ outbox = <<Msg(ADMIN_IDS[1], "status_updated_not_notified", <<"1">>,
                      <<"a"," "," ","b">>)>>

\* C32: when the header row of the orders sheet names no status column, an
\* update fails for whatever OrderID is given, that of a row of the sheet or
\* not: no write is begun, the sheet is unchanged, and the operator is told
\* that the update failed.
C32_NoStatusColumnFails ==
    [][\A text \in StatusInputs(variant, ADMIN_IDS[1], "UpdatingOrderStatus") :
       \A ok \in BOOLEAN :
          (/\ process_update_status(ADMIN_IDS[1], text, ok, FALSE)
           /\ ~IsCancelInState(variant, text)
           /\ ValidUpdateText(text))
            => /\ ledger' = ledger
               /\ tasks' = tasks
               /\ outbox' = <<UpdateFailed(ADMIN_IDS[1], Split1(Strip(text))[1])>>]_vars

\* the update of order 1, a row of the sheet, was refused: the row has its
\* first status, nothing is pending, the operator was told of the failure
C32_Witness ==
    /\ Len(ledger) = 1
    /\ ledger[1].OrderID = 1
    /\ ledger[1].status = INITIAL_STATUS
    /\ Quiet
    /\ outbox = <<UpdateFailed(ADMIN_IDS[1], <<"1">>)>>

\* the fields of a complete draft
DraftKeys == {"chosen_cake", "taste", "size", "decor"}

\* C33: a creation is begun only by a confirmation of a participant whose
\* session is in Confirming with cake, taste, size and decor in the draft, and
\* the ledger grows only by the row of a creation so begun; a confirmation
\* that arrives in another state, Idle after an order or a cancel included,
\* adds no row.
C33_RowsOnlyFromConfirming ==
    /\ [][\A i \in 1..MaxTasks :
            (tasks[i] = NoTask /\ tasks'[i].h = "create_new_order")
              => /\ fsm[tasks'[i].u].state = "Confirming"
                 /\ HasKeys(fsm[tasks'[i].u].data, DraftKeys)]_vars
    /\ [][Len(ledger') > Len(ledger)
            => \E i \in 1..MaxTasks :
                  /\ tasks[i].h = "create_new_order"
                  /\ ledger' = Append(ledger, tasks[i].row)
                  /\ tasks[i].row.taste # <<>>
                  /\ tasks[i].row.size # <<>>
                  /\ tasks[i].row.decor # <<>>
                  /\ tasks[i].row.cake_name # <<>>]_vars

\* the answers to an operator text that did not lead to a written status
RefusedUpdate == {"bad_format", "id_not_number", "update_failed", "no_access"}

\* C34: a customer is notified of a status only in the step that follows the
\* write of that status: the sheet then holds, in a row of the order named in
\* the notification, the status it names; the handler gets as far as the
\* notification only through a write that the store accepted; and a step that
\* answers a refused text or a failed update sends no notification.
C34_NotifyAfterWrite ==
    /\ [][\A k \in 1..Len(outbox') :
            outbox'[k].kind = "status_update"
              => /\ \E r \in 1..Len(ledger) :
                       /\ StrNat(ledger[r].OrderID) = outbox'[k].oid
                       /\ ledger[r].status = outbox'[k].status
                 /\ \E i \in 1..MaxTasks :
                       /\ tasks[i].h = "get_all_orders"
                       /\ tasks'[i] = NoTask
                       /\ tasks[i].order_id = outbox'[k].oid
                       /\ tasks[i].new_status = outbox'[k].status]_vars
    /\ [][\A i \in 1..MaxTasks :
            (tasks'[i].h = "get_all_orders" /\ tasks[i].h # "get_all_orders")
              => /\ update_cell(i, TRUE)
                 /\ ledger'[tasks[i].idx].status = tasks'[i].new_status
                 /\ StrNat(ledger'[tasks[i].idx].OrderID) = tasks'[i].order_id]_vars
    /\ [][(\E k \in 1..Len(outbox') : outbox'[k].kind \in RefusedUpdate)
            => \A k \in 1..Len(outbox') : outbox'[k].kind # "status_update"]_vars

\* customer 1 was told that order 1 is "ok", and the sheet says so
C34_Witness ==
    /\ Len(ledger) >= 1
    /\ ledger[1].status = <<"o","k">>
    /\ Len(outbox) = 2
    /\ outbox[1] = Notify(1, "status_update", <<"1">>, <<"o","k">>, TRUE)

\* C35: the participant notified of a status is the one whose id stands in the
\* row the status was written into, also when other rows carry the same
\* OrderID and when rows were appended between the write and the second read;
\* and that row carries the OrderID and the status the notification names.
C35_NotifiesOwnerOfWrittenRow ==
    [][\A i \in 1..MaxTasks : \A ok \in BOOLEAN, sent \in BOOLEAN :
          get_all_orders(i, ok, sent) =>
             \A k \in 1..Len(outbox') :
                outbox'[k].kind = "status_update"
                  => /\ tasks[i].idx \in 1..Len(ledger)
                     /\ StrNat(outbox'[k].to) = Strip(ledger[tasks[i].idx].user_id)
                     /\ StrNat(ledger[tasks[i].idx].OrderID) = outbox'[k].oid
                     /\ ledger[tasks[i].idx].status = outbox'[k].status]_vars

\* rows 1 and 2, of different customers, both carry OrderID 1; the status went
\* into row 1 and the customer of row 1 is the one notified
C35_Witness ==
    /\ Len(ledger) = 2
    /\ ledger[1].OrderID = 1
    /\ ledger[2].OrderID = 1
    /\ ledger[1].user_id # ledger[2].user_id
    /\ ledger[1].status = <<"o","k">>
    /\ Len(outbox) = 2
    /\ outbox[1].kind = "status_update"
    /\ StrNat(outbox[1].to) = ledger[1].user_id

\* C36: when rows were appended between the read of an update and its write,
\* the row index taken from the read is still that of a row with the OrderID
\* asked for: an accepted write puts the status into such a row and changes no
\* row of another OrderID; and an append made while an update waits for its
\* write leaves every row the update has read where it was.
C36_IndexSurvivesAppends ==
    /\ [][\A i \in 1..MaxTasks :
            update_cell(i, TRUE) =>
               /\ tasks[i].idx \in 1..Len(ledger)
               /\ StrNat(ledger[tasks[i].idx].OrderID) = tasks[i].order_id
               /\ ledger'[tasks[i].idx].status = tasks[i].new_status
               /\ \A r \in 1..Len(ledger) :
                     StrNat(ledger[r].OrderID) # tasks[i].order_id
                        => ledger'[r] = ledger[r]]_vars
    /\ [][\A i \in 1..MaxTasks :
            (tasks[i].h = "update_order_status" /\ Len(ledger') > Len(ledger))
              => /\ tasks'[i] = tasks[i]
                 /\ ledger'[tasks[i].idx] = ledger[tasks[i].idx]]_vars

\* the update took the second slot, so a creation was pending when it read the
\* sheet; its write has just been made, into row 1, with the row of that
\* creation already in the sheet
C36_Witness ==
    /\ tasks[2].h = "get_all_orders"
    /\ tasks[2].idx = 1
    /\ tasks[1] = NoTask
    /\ Len(ledger) = 2
    /\ ledger[1].status = <<"o","k">>
    /\ ledger[2].status = INITIAL_STATUS
    /\ outbox = <<>>

\* how often the lines of row r stand in the pages of the listing
TimesShown(r) ==
    Cardinality({pi \in {<<p, i>> : p \in 1..Len(pg.text), i \in 1..ViewPageSize} :
                    /\ pi[2] <= Len(pg.text[pi[1]])
                    /\ pg.text[pi[1]][pi[2]] = OrderLines(ledger[r])})

\* C37: when the operator's listing (o3.py, user_bot.py, combined_bot.py) has
\* read the sheet, every row whose status is not exactly "Доставлен" stands on
\* exactly one page, no row with that status stands on any, every page has
\* between 1 and 10 rows, and nothing but rows of the sheet is shown.
C37_ViewListsPending ==
    (pg.walk = "all" /\ pg.fetched) =>
        /\ \A r \in 1..Len(ledger) :
              TimesShown(r) = IF ledger[r].status # DELIVERED_STATUS THEN 1 ELSE 0
        /\ \A p \in 1..Len(pg.text) :
              /\ Len(pg.text[p]) >= 1
              /\ Len(pg.text[p]) <= 10
              /\ \A i \in 1..Len(pg.text[p]) :
                    \E r \in 1..Len(ledger) : pg.text[p][i] = OrderLines(ledger[r])

\* eleven rows, none delivered (the first "доставлен" in small letters): ten
\* on the first page, one on the second
C37_Witness ==
    /\ pg.walk = "all"
    /\ pg.fetched
    /\ Len(ledger) = 11
    /\ ledger[1].status = Lower(DELIVERED_STATUS)
    /\ Len(pg.text) = 2
    /\ Len(pg.text[1]) = 10
    /\ Len(pg.text[2]) = 1

\* C38: in the paginated variant every page a rendered "back" or "forward"
\* button carries is at least 0 and below the page count of the listing it was
\* rendered for; it is still below the page count of the participant's orders as
\* the sheet holds them now, whatever orders were placed and statuses set since;
\* and a press answered with a read that succeeds shows that page with an order
\* on it.
PageCount(n, s) == Ceil(n, s)

ButtonsInRange ==
    pg.walk \in {"next", "previous"} =>
        \A k \in 1..Len(pg.markup) :
            /\ 0 <= pg.markup[k].page
            /\ pg.markup[k].page < PageCount(Len(pg.orders), pg.page_size)
            /\ pg.markup[k].page
                 < PageCount(Len(get_all_orders_by_user(TRUE, ledger, pg.user)),
                             StatusPageSize(variant))

C38_ButtonsStayInRange ==
    /\ [](variant = "o3" => ButtonsInRange)
    /\ [][\A page \in 0..MaxPress :
            (variant = "o3" /\ orders_page_pressed(page, TRUE))
                => /\ pg'.walk \in {"next", "previous"}
                   /\ pg'.page = page
                   /\ pg'.text # <<>>
                   /\ pg'.text[1] = OrderLines(pg'.orders[page * pg'.page_size + 1])]_vars

\* the second of three pages, reached by a button, of a listing with a status set
C38_Witness ==
    /\ variant = "o3"
    /\ pg.walk = "next"
    /\ pg.page = 1
    /\ Len(pg.orders) = 3
    /\ Len(pg.markup) = 2
    /\ Len(pg.text) = 1
    /\ \E k \in 1..3 : pg.orders[k].status = STATUS_OK

\* C39: /start, in whatever state the session of a customer or an operator is,
\* leaves that session Idle with an empty draft and changes neither the ledger
\* nor the pending store calls; a session that is Idle (after a reset, a cancel
\* or a completion) holds no draft field, so a dialogue begun from Idle, of
\* either track, begins with an empty draft.
DialogueBegins(u) ==
    /\ fsm[u].state = "Idle"
    /\ fsm'[u].state \in {"ChoosingCake", "UpdatingOrderStatus"}

C39_StartResets ==
    /\ [](\A u \in Participants : fsm[u].state = "Idle" => fsm[u].data = EmptyDict)
    /\ [][\A u \in Participants :
            /\ handle_start(u, CMD_START)
                 => /\ fsm'[u] = Cleared
                    /\ ledger' = ledger
                    /\ tasks' = tasks
            /\ DialogueBegins(u) => fsm'[u].data = EmptyDict]_vars

\* the customer whose order is in the ledger is greeted again, the session reset
C39_Witness ==
    /\ outbox = <<Reply(1, "hello")>>
    /\ fsm[1] = Cleared
    /\ ledger # <<>>

====
